---- MODULE Spec2Model ----
(***************************************************************************)
(* CPWord (Compound Word) tokenization of MidiTok:                         *)
(*   _add_time_events  - the time-grid segmenter (events -> compound       *)
(*                       tokens),                                          *)
(*   __create_cp_token - the compound token assembler,                     *)
(*   tokens_to_midi    - the decoder (compound tokens -> notes, tempo and  *)
(*                       time signature changes),                          *)
(*   _create_token_types_graph, tokens_errors - the validator.             *)
(*                                                                         *)
(* A value of an event or of a token slot is the list of the integers of   *)
(* its text: "None" is <<>>, "60" is <<60>>, "3/4" is <<3, 4>> and the     *)
(* duration "1.0.2" is <<1, 0, 2>>.  Python index i of a token is index    *)
(* i + 1 here.                                                             *)
(***************************************************************************)
EXTENDS Integers, Sequences, FiniteSets, TLC

VARIABLES
    config,     \* the feature flags of the tokenizer configuration
    events,     \* the event stream given to _add_time_events
    todo,       \* the calls still to make, the running one first
    enc,        \* the locals of _add_time_events
    tokens,     \* the token sequences given to tokens_to_midi / tokens_errors
    dec,        \* the locals of tokens_to_midi
    val         \* the locals of tokens_errors

vars == <<config, events, todo, enc, tokens, dec, val>>

(***************************************************************************)
(* Bounds of the model.                                                    *)
(***************************************************************************)
MaxItems == 3       \* musical items (notes, tempo / time signature changes) of a stream
MaxLen == 3         \* tokens of a sequence handed directly to the validator
MaxSeq == 2         \* tokens of the first sequence handed directly to the decoder

(***************************************************************************)
(* Constants and configuration values.                                     *)
(***************************************************************************)
None == <<>>
TEMPO == 120
TIME_SIGNATURE == <<4, 4>>
time_division == 4
max_beat_res == 2
ticks_per_sample == time_division \div max_beat_res

Flags == {"use_programs", "use_chords", "use_rests", "use_tempos", "use_time_signatures"}
Configs == [Flags -> BOOLEAN]

\* the optional fields, in the order of their slots
OptionalFields ==
    << <<"use_programs", "Program">>, <<"use_chords", "Chord">>, <<"use_rests", "Rest">>,
       <<"use_tempos", "Tempo">>, <<"use_time_signatures", "TimeSig">> >>

\* config.programs, the tempo and the rest vocabularies
programs == {0, 1}
tempos == {90, 120}
rests == {<<1, 0, 2>>, <<2, 0, 2>>, <<4, 0, 2>>}

\* the tokenizer handles one merged token stream exactly when programs are used
one_token_stream(cfg) == cfg["use_programs"]

(***************************************************************************)
(* Helpers of the tokenizer base class.                                    *)
(***************************************************************************)
Max(a, b) == IF a >= b THEN a ELSE b

\* _compute_ticks_per_bar: the length of a bar of time signature ts
compute_ticks_per_bar(ts, td) == (td * 4 * ts[1]) \div ts[2]

\* _token_duration_to_ticks: "beat.pos.res" -> ticks
token_duration_to_ticks(d, td) == ((d[1] * d[3] + d[2]) * td) \div d[3]

\* _min_rest: the shortest rest of the vocabulary, in ticks
min_rest ==
    CHOOSE m \in {token_duration_to_ticks(r, time_division) : r \in rests} :
        \A r \in rests : m <= token_duration_to_ticks(r, time_division)

\* _ticks_to_duration_tokens(duration, rest=True): largest-first greedy
\* decomposition of a duration over the rest vocabulary
RECURSIVE ticks_to_rest_tokens(_)
ticks_to_rest_tokens(duration) ==
    IF duration < min_rest THEN <<>>
    ELSE LET fit == {r \in rests : token_duration_to_ticks(r, time_division) <= duration}
             r == CHOOSE x \in fit : \A y \in fit :
                     token_duration_to_ticks(y, time_division)
                         <= token_duration_to_ticks(x, time_division)
         IN <<r>> \o ticks_to_rest_tokens(duration - token_duration_to_ticks(r, time_division))

\* _parse_token_time_signature: "num/den" -> (num, den)
parse_token_time_signature(v) == <<v[1], v[2]>>

(***************************************************************************)
(* Compound tokens.                                                        *)
(***************************************************************************)
Slot(type, value) == [type |-> type, value |-> value]
Ignore == Slot("Ignore", None)

RECURSIVE EnabledFields(_, _)
EnabledFields(cfg, i) ==
    IF i > Len(OptionalFields) THEN <<>>
    ELSE (IF cfg[OptionalFields[i][1]] THEN <<OptionalFields[i][2]>> ELSE <<>>)
         \o EnabledFields(cfg, i + 1)

\* _tweak_config_before_creating_voc: the token types in slot order
token_types(cfg) ==
    <<"Family", "Position", "Pitch", "Velocity", "Duration">> \o EnabledFields(cfg, 1)

\* vocab_types_idx[name]: the Python index of the slot of a field
vocab_types_idx(cfg, name) ==
    IF name = "Bar" THEN 1
    ELSE (CHOOSE i \in 1..Len(token_types(cfg)) : token_types(cfg)[i] = name) - 1

\* the arguments of __create_cp_token and their defaults
NoArgs ==
    [bar |-> FALSE, pos |-> None, pitch |-> None, vel |-> None, dur |-> None,
     chord |-> None, rest |-> None, tempo |-> None, time_signature |-> None,
     program |-> None]

\* cp_token[idx] = slot, idx a Python index
Put(tok, idx, slot) == [tok EXCEPT ![idx + 1] = slot]

\* __create_cp_token without "cp_token[0].value = Note"
create_cp_token_FamilyKept(cfg, a) ==
    LET blank == <<Slot("Family", "Metric"), Ignore, Ignore, Ignore, Ignore>>
                 \o [i \in 1..Len(EnabledFields(cfg, 1)) |-> Ignore]
    IN IF a.bar THEN
           LET t1 == Put(blank, 1, Slot("Bar", None))
           IN IF a.time_signature # None
              THEN Put(t1, vocab_types_idx(cfg, "TimeSig"), Slot("TimeSig", a.time_signature))
              ELSE t1
       ELSE IF a.pos # None THEN
           LET t1 == Put(blank, 1, Slot("Position", a.pos))
               t2 == IF a.chord # None
                     THEN Put(t1, vocab_types_idx(cfg, "Chord"), Slot("Chord", a.chord))
                     ELSE t1
           IN IF a.tempo # None
              THEN Put(t2, vocab_types_idx(cfg, "Tempo"), Slot("Tempo", a.tempo))
              ELSE t2
       ELSE IF a.rest # None THEN
           Put(blank, vocab_types_idx(cfg, "Rest"), Slot("Rest", a.rest))
       ELSE IF a.pitch # None THEN
           LET t1 == Put(Put(Put(blank, 2, Slot("Pitch", a.pitch)),
                             3, Slot("Velocity", a.vel)),
                         4, Slot("Duration", a.dur))
           IN IF a.program # None
              THEN Put(t1, vocab_types_idx(cfg, "Program"), Slot("Program", a.program))
              ELSE t1
       ELSE blank

\* __create_cp_token
create_cp_token(cfg, a) ==
    LET blank == <<Slot("Family", "Metric"), Ignore, Ignore, Ignore, Ignore>>
                 \o [i \in 1..Len(EnabledFields(cfg, 1)) |-> Ignore]
    IN IF a.bar THEN
           LET t1 == Put(blank, 1, Slot("Bar", None))
           IN IF a.time_signature # None
              THEN Put(t1, vocab_types_idx(cfg, "TimeSig"), Slot("TimeSig", a.time_signature))
              ELSE t1
       ELSE IF a.pos # None THEN
           LET t1 == Put(blank, 1, Slot("Position", a.pos))
               t2 == IF a.chord # None
                     THEN Put(t1, vocab_types_idx(cfg, "Chord"), Slot("Chord", a.chord))
                     ELSE t1
           IN IF a.tempo # None
              THEN Put(t2, vocab_types_idx(cfg, "Tempo"), Slot("Tempo", a.tempo))
              ELSE t2
       ELSE IF a.rest # None THEN
           Put(blank, vocab_types_idx(cfg, "Rest"), Slot("Rest", a.rest))
       ELSE IF a.pitch # None THEN
           LET t1 == Put(Put(Put(Put(blank, 0, Slot("Family", "Note")),
                                 2, Slot("Pitch", a.pitch)),
                             3, Slot("Velocity", a.vel)),
                         4, Slot("Duration", a.dur))
           IN IF a.program # None
              THEN Put(t1, vocab_types_idx(cfg, "Program"), Slot("Program", a.program))
              ELSE t1
       ELSE blank

(***************************************************************************)
(* Event streams.  A stream is made of at most MaxItems musical items      *)
(* (a note, a tempo change, a time signature change), in tick order; at    *)
(* one tick the time signature comes first, then the tempo, then the notes *)
(* by pitch.  A time signature change lies on a bar line.                  *)
(***************************************************************************)
Event(type, value, time, desc) == [type |-> type, value |-> value, time |-> time, desc |-> desc]

\* a note item: <<pitch, velocity, program, chord (0: none)>> and its duration
Item(kind, tick, a, d) == [kind |-> kind, tick |-> tick, a |-> a, d |-> d]

LongNoteTicks == {0, 32, 36}
ShortNoteTicks == {0, 4}
ChordTicks == {0}
TempoTicks == {0, 4}
TimeSigChanges == {<<0, <<3, 4>> >>, <<0, <<4, 4>> >>, <<12, <<4, 4>> >>, <<16, <<3, 4>> >>}

Items(cfg) ==
    {Item("Note", t, <<60, 100, 0, 0>>, <<1, 0, 2>>) : t \in LongNoteTicks}
    \cup {Item("Note", t, <<62, 64, 1, 0>>, <<0, 1, 2>>) : t \in ShortNoteTicks}
    \cup (IF cfg["use_chords"]
          THEN {Item("Note", t, <<60, 100, 0, 1>>, <<1, 0, 2>>) : t \in ChordTicks}
          ELSE {})
    \cup (IF cfg["use_tempos"]
          THEN {Item("Tempo", t, <<v>>, None) : t \in TempoTicks, v \in tempos}
          ELSE {})
    \cup (IF cfg["use_time_signatures"]
          THEN {Item("TimeSig", c[1], c[2], None) : c \in TimeSigChanges}
          ELSE {})

Rank(it) == IF it.kind = "TimeSig" THEN 0 ELSE IF it.kind = "Tempo" THEN 1 ELSE 2

\* it2 may follow it1 in a stream
Follows(it1, it2) ==
    \/ it1.tick < it2.tick
    \/ it1.tick = it2.tick /\ Rank(it1) < Rank(it2)
    \/ it1.tick = it2.tick /\ it1.kind = "Note" /\ it2.kind = "Note" /\ it1.a[1] <= it2.a[1]

RECURSIVE StreamsFrom(_, _, _)
StreamsFrom(cfg, n, last) ==
    IF n = 0 THEN {<<>>}
    ELSE {<<>>} \cup
         UNION {{<<it>> \o s : s \in StreamsFrom(cfg, n - 1, <<it>>)} :
                    it \in {x \in Items(cfg) : last = <<>> \/ Follows(last[1], x)}}

\* every time signature change lies on a bar line of the signature before it
RECURSIVE OnBarLines(_, _, _, _)
OnBarLines(s, i, ts, since) ==
    IF i > Len(s) THEN TRUE
    ELSE IF s[i].kind = "TimeSig"
         THEN /\ (s[i].tick - since) % compute_ticks_per_bar(ts, time_division) = 0
              /\ OnBarLines(s, i + 1, s[i].a, s[i].tick)
         ELSE OnBarLines(s, i + 1, ts, since)

Streams(cfg) == {s \in StreamsFrom(cfg, MaxItems, <<>>) : OnBarLines(s, 1, TIME_SIGNATURE, 0)}

\* the events of an item: (Chord) (Program) Pitch Velocity Duration for a note
ItemEvents(cfg, it) ==
    IF it.kind = "Note" THEN
        (IF it.a[4] # 0 THEN <<Event("Chord", <<it.a[4]>>, it.tick, 0)>> ELSE <<>>)
        \o (IF cfg["use_programs"] THEN <<Event("Program", <<it.a[3]>>, it.tick, 0)>> ELSE <<>>)
        \o <<Event("Pitch", <<it.a[1]>>, it.tick,
                   it.tick + token_duration_to_ticks(it.d, time_division)),
             Event("Velocity", <<it.a[2]>>, it.tick, 0),
             Event("Duration", it.d, it.tick, 0)>>
    ELSE <<Event(it.kind, it.a, it.tick, 0)>>

RECURSIVE StreamEvents(_, _)
StreamEvents(cfg, s) ==
    IF s = <<>> THEN <<>> ELSE ItemEvents(cfg, Head(s)) \o StreamEvents(cfg, Tail(s))

(***************************************************************************)
(* _add_time_events: the time-grid segmenter.                              *)
(***************************************************************************)
\* int(a / b) of Python: the quotient truncated towards zero
TruncDiv(a, b) == IF a >= 0 THEN a \div b ELSE -((-a) \div b)

NoteStart == {"Pitch", "Velocity", "Duration", "PitchBend", "Pedal"}

\* the value of the first event of type type_ that precedes every note event
RECURSIVE FirstBeforeNotes(_, _, _)
FirstBeforeNotes(evs, i, type_) ==
    IF i > Len(evs) THEN None
    ELSE IF evs[i].type = type_ THEN evs[i].value
    ELSE IF evs[i].type \in NoteStart THEN None
    ELSE FirstBeforeNotes(evs, i + 1, type_)

\* the locals before the pre-pass
EncBlank ==
    [pc |-> "begin", e |-> 1, first_new |-> 1, all_events |-> <<>>,
     current_bar |-> -1, bar_at_last_ts_change |-> 0, previous_tick |-> -1,
     previous_note_end |-> 0, tick_at_last_ts_change |-> 0, tick_at_current_bar |-> 0,
     current_time_sig |-> TIME_SIGNATURE, current_tempo |-> <<TEMPO>>,
     current_program |-> None,
     ticks_per_bar |-> compute_ticks_per_bar(TIME_SIGNATURE, time_division)]

\* the pre-pass: seed the time signature and the tempo
PrePass(cfg, evs, st) ==
    LET ts == IF cfg["use_time_signatures"] THEN FirstBeforeNotes(evs, 1, "TimeSig") ELSE None
        tp == IF cfg["use_tempos"] THEN FirstBeforeNotes(evs, 1, "Tempo") ELSE None
        s1 == IF ts # None
              THEN [st EXCEPT !.current_time_sig = <<ts[1], ts[2]>>,
                              !.ticks_per_bar = compute_ticks_per_bar(<<ts[1], ts[2]>>, time_division)]
              ELSE st
    IN [s1 EXCEPT !.current_tempo = IF tp # None THEN tp ELSE @, !.pc = "loop"]

RECURSIVE SumTicks(_)
SumTicks(ds) ==
    IF ds = <<>> THEN 0
    ELSE token_duration_to_ticks(Head(ds), time_division) + SumTicks(Tail(ds))

\* RestPart with the gap counted from the tick of the event before
RestPart_FromPreviousTick(cfg, st, event) ==
    IF cfg["use_rests"] /\ event.time - st.previous_note_end >= min_rest THEN
        LET start == st.previous_tick
            rest_values == ticks_to_rest_tokens(event.time - start)
            previous_tick == start + SumTicks(rest_values)
            real_current_bar ==
                st.bar_at_last_ts_change
                + (previous_tick - st.tick_at_last_ts_change) \div st.ticks_per_bar
            ahead == real_current_bar > st.current_bar
        IN [st EXCEPT
               !.all_events = @ \o [i \in 1..Len(rest_values) |->
                                      create_cp_token(cfg, [NoArgs EXCEPT !.rest = rest_values[i]])],
               !.previous_tick = previous_tick,
               !.tick_at_current_bar =
                   IF ahead THEN @ + (real_current_bar - st.current_bar) * st.ticks_per_bar ELSE @,
               !.current_bar = IF ahead THEN real_current_bar ELSE @]
    ELSE st

\* (Rest): the Rest tokens of a gap and the silent advance of the bar
RestPart(cfg, st, event) ==
    IF cfg["use_rests"] /\ event.time - st.previous_note_end >= min_rest THEN
        LET start == st.previous_note_end
            rest_values == ticks_to_rest_tokens(event.time - start)
            previous_tick == start + SumTicks(rest_values)
            real_current_bar ==
                st.bar_at_last_ts_change
                + (previous_tick - st.tick_at_last_ts_change) \div st.ticks_per_bar
            ahead == real_current_bar > st.current_bar
        IN [st EXCEPT
               !.all_events = @ \o [i \in 1..Len(rest_values) |->
                                      create_cp_token(cfg, [NoArgs EXCEPT !.rest = rest_values[i]])],
               !.previous_tick = previous_tick,
               !.tick_at_current_bar =
                   IF ahead THEN @ + (real_current_bar - st.current_bar) * st.ticks_per_bar ELSE @,
               !.current_bar = IF ahead THEN real_current_bar ELSE @]
    ELSE st

\* Bar: one Bar token per bar newly entered
BarPart(cfg, st, event) ==
    LET nb_new_bars ==
            st.bar_at_last_ts_change
            + (event.time - st.tick_at_last_ts_change) \div st.ticks_per_bar
            - st.current_bar
        time_sig_arg(i) ==
            IF i = nb_new_bars - 1 /\ event.type = "TimeSig"
            THEN <<event.value[1], event.value[2]>>
            ELSE IF cfg["use_time_signatures"] THEN st.current_time_sig ELSE None
    IN IF nb_new_bars >= 1 THEN
           LET current_bar == st.current_bar + nb_new_bars
           IN [st EXCEPT
                  !.all_events = @ \o [j \in 1..nb_new_bars |->
                      create_cp_token(cfg, [NoArgs EXCEPT !.bar = TRUE,
                                                          !.time_signature = time_sig_arg(j - 1)])],
                  !.current_bar = current_bar,
                  !.tick_at_current_bar =
                      st.tick_at_last_ts_change
                      + (current_bar - st.bar_at_last_ts_change) * st.ticks_per_bar]
       ELSE st

\* Position: the Position token of the tick of the event
PositionPart(cfg, st, event) ==
    IF event.type # "TimeSig" THEN
        LET pos_index == TruncDiv(event.time - st.tick_at_current_bar, ticks_per_sample)
        IN [st EXCEPT !.all_events = Append(@,
               create_cp_token(cfg,
                   [NoArgs EXCEPT !.pos = <<pos_index>>,
                                  !.chord = IF event.type = "Chord" THEN event.value ELSE None,
                                  !.tempo = IF cfg["use_tempos"] THEN st.current_tempo ELSE None]))]
    ELSE st

\* the time tokens of an event at a new tick
TimePart(cfg, st, event) ==
    IF event.time # st.previous_tick
    THEN [PositionPart(cfg, BarPart(cfg, RestPart(cfg, st, event), event), event)
             EXCEPT !.previous_tick = event.time]
    ELSE st

\* TimeSigPart without the decrease of previous_tick
TimeSigPart_NoDecrease(st, event) ==
    IF event.type = "TimeSig" THEN
        LET current_time_sig == <<event.value[1], event.value[2]>>
        IN [st EXCEPT
               !.current_time_sig = current_time_sig,
               !.bar_at_last_ts_change =
                   @ + (event.time - st.tick_at_last_ts_change) \div st.ticks_per_bar,
               !.tick_at_last_ts_change = event.time,
               !.ticks_per_bar = compute_ticks_per_bar(current_time_sig, time_division)]
    ELSE st

\* the update of the time signature variables
TimeSigPart(st, event) ==
    IF event.type = "TimeSig" THEN
        LET current_time_sig == <<event.value[1], event.value[2]>>
        IN [st EXCEPT
               !.current_time_sig = current_time_sig,
               !.bar_at_last_ts_change =
                   @ + (event.time - st.tick_at_last_ts_change) \div st.ticks_per_bar,
               !.tick_at_last_ts_change = event.time,
               !.ticks_per_bar = compute_ticks_per_bar(current_time_sig, time_division),
               !.previous_tick = @ - 1]
    ELSE st

\* the Note token of a Pitch event that three events follow
NotePart_ThreeAhead(cfg, evs, st, k) ==
    LET event == evs[k]
    IN IF event.type = "Pitch" /\ (k - 1) + 3 < Len(evs) THEN
           [st EXCEPT
               !.all_events = Append(@,
                   create_cp_token(cfg,
                       [NoArgs EXCEPT !.pitch = event.value, !.vel = evs[k + 1].value,
                                      !.dur = evs[k + 2].value,
                                      !.program = st.current_program])),
               !.previous_note_end = Max(@, event.desc)]
       ELSE IF event.type \in {"Program", "Tempo", "TimeSig", "Chord"} THEN
           [st EXCEPT !.previous_note_end = Max(@, event.time)]
       ELSE st

\* the Note token of a Pitch event, and the note-end watermark
NotePart(cfg, evs, st, k) ==
    LET event == evs[k]
    IN IF event.type = "Pitch" /\ (k - 1) + 2 < Len(evs) THEN
           [st EXCEPT
               !.all_events = Append(@,
                   create_cp_token(cfg,
                       [NoArgs EXCEPT !.pitch = event.value, !.vel = evs[k + 1].value,
                                      !.dur = evs[k + 2].value,
                                      !.program = st.current_program])),
               !.previous_note_end = Max(@, event.desc)]
       ELSE IF event.type \in {"Program", "Tempo", "TimeSig", "Chord"} THEN
           [st EXCEPT !.previous_note_end = Max(@, event.time)]
       ELSE st

\* LoopBody with Program events raising the note-end watermark
LoopBody_ProgramRaises(cfg, evs, st, k) ==
    LET event == evs[k]
        s0 == IF event.type = "Tempo" THEN [st EXCEPT !.current_tempo = event.value] ELSE st
    IN IF event.type = "Program"
       THEN [st EXCEPT !.current_program = event.value,
                       !.previous_note_end = Max(@, event.time)]
       ELSE NotePart(cfg, evs, TimeSigPart(TimePart(cfg, s0, event), event), k)

\* LoopBody with the tempo of a Tempo event taken after its time tokens
LoopBody_TempoAfterTime(cfg, evs, st, k) ==
    LET event == evs[k]
        s1 == TimeSigPart(TimePart(cfg, st, event), event)
        s2 == IF event.type = "Tempo" THEN [s1 EXCEPT !.current_tempo = event.value] ELSE s1
    IN IF event.type = "Program"
       THEN [st EXCEPT !.current_program = event.value]
       ELSE NotePart(cfg, evs, s2, k)

\* one turn of the main loop
LoopBody(cfg, evs, st, k) ==
    LET event == evs[k]
        s0 == IF event.type = "Tempo" THEN [st EXCEPT !.current_tempo = event.value] ELSE st
    IN IF event.type = "Program"
       THEN [st EXCEPT !.current_program = event.value]
       ELSE NotePart(cfg, evs, TimeSigPart(TimePart(cfg, s0, event), event), k)

Running(call) == todo # <<>> /\ Head(todo) = call

AddTimeEventsBegin ==
    /\ Running("_add_time_events") /\ enc.pc = "begin"
    /\ enc' = PrePass(config, events, enc)
    /\ UNCHANGED <<config, events, todo, tokens, dec, val>>

AddTimeEventsLoop ==
    /\ Running("_add_time_events") /\ enc.pc = "loop" /\ enc.e <= Len(events)
    /\ enc' = [LoopBody(config, events, enc, enc.e) EXCEPT
                  !.e = enc.e + 1, !.first_new = Len(enc.all_events) + 1]
    /\ UNCHANGED <<config, events, todo, tokens, dec, val>>

AddTimeEventsReturn ==
    /\ Running("_add_time_events") /\ enc.pc = "loop" /\ enc.e > Len(events)
    /\ enc' = [enc EXCEPT !.pc = "done"]
    /\ tokens' = <<enc.all_events>>
    /\ todo' = Tail(todo)
    /\ UNCHANGED <<config, events, dec, val>>

(***************************************************************************)
(* tokens_to_midi: the decoder.                                            *)
(***************************************************************************)
Family(tok) == tok[1].value
At(tok, idx) == tok[idx + 1]          \* compound_token[idx], idx a Python index

TempoChange(tempo, time) == <<tempo, time>>
TimeSignature(num, den, time) == <<num, den, time>>
Note(vel, pitch, start, end) == <<vel, pitch, start, end>>

DecBlank == [pc |-> "begin"]

\* the results and the locals before the loop over the sequences
DecStart ==
    [pc |-> "seq", si |-> 0, ti |-> 0,
     instruments |-> <<>>, tempo_changes |-> <<TempoChange(TEMPO, -1)>>,
     time_signature_changes |-> <<>>, midi_instruments |-> <<>>,
     current_tick |-> 0, tick_at_last_ts_change |-> 0, tick_at_current_bar |-> 0,
     current_bar |-> -1, bar_at_last_ts_change |-> 0, current_program |-> 0,
     current_instrument |-> <<>>, previous_note_end |-> 0,
     current_time_sig |-> <<>>, ticks_per_bar |-> 0,
     midi |-> <<>>]

\* the first time signature of the first sequence: <<"ok", changes>> or <<"raise">>
RECURSIVE FirstTimeSig(_, _, _)
FirstTimeSig(cfg, seq, i) ==
    IF i > Len(seq) THEN <<"ok", <<>> >>
    ELSE IF Family(seq[i]) = "Metric" THEN
        IF At(seq[i], 1).type = "Bar" THEN
            LET v == At(seq[i], vocab_types_idx(cfg, "TimeSig")).value
            IN IF v = None THEN <<"raise">>
               ELSE <<"ok", <<TimeSignature(parse_token_time_signature(v)[1],
                                            parse_token_time_signature(v)[2], 0)>> >>
        ELSE FirstTimeSig(cfg, seq, i + 1)
    ELSE <<"ok", <<>> >>

\* SeqHead without the reset of current_bar
SeqHead_BarKept(cfg, seqs, st) ==
    LET seq == seqs[st.si + 1]
        found == IF st.si = 0 /\ cfg["use_time_signatures"]
                 THEN FirstTimeSig(cfg, seq, 1) ELSE <<"ok", <<>> >>
    IN IF found[1] = "raise" THEN [st EXCEPT !.pc = "raised"]
       ELSE
        LET tsc == IF st.si = 0
                   THEN IF Len(found[2]) = 0
                        THEN <<TimeSignature(TIME_SIGNATURE[1], TIME_SIGNATURE[2], 0)>>
                        ELSE found[2]
                   ELSE st.time_signature_changes
            s1 == [st EXCEPT !.pc = "tok", !.ti = 0,
                             !.time_signature_changes = tsc,
                             !.current_time_sig = tsc[1],
                             !.ticks_per_bar = compute_ticks_per_bar(tsc[1], time_division)]
        IN IF ~one_token_stream(cfg)
           THEN [s1 EXCEPT !.current_tick = 0, !.tick_at_last_ts_change = 0,
                           !.tick_at_current_bar = 0,
                           !.bar_at_last_ts_change = 0, !.previous_note_end = 0,
                           !.current_instrument =
                               [program |-> s1.current_program, is_drum |-> FALSE,
                                notes |-> <<>>]]
           ELSE s1

\* the head of the loop over the sequences
SeqHead(cfg, seqs, st) ==
    LET seq == seqs[st.si + 1]
        found == IF st.si = 0 /\ cfg["use_time_signatures"]
                 THEN FirstTimeSig(cfg, seq, 1) ELSE <<"ok", <<>> >>
    IN IF found[1] = "raise" THEN [st EXCEPT !.pc = "raised"]
       ELSE
        LET tsc == IF st.si = 0
                   THEN IF Len(found[2]) = 0
                        THEN <<TimeSignature(TIME_SIGNATURE[1], TIME_SIGNATURE[2], 0)>>
                        ELSE found[2]
                   ELSE st.time_signature_changes
            s1 == [st EXCEPT !.pc = "tok", !.ti = 0,
                             !.time_signature_changes = tsc,
                             !.current_time_sig = tsc[1],
                             !.ticks_per_bar = compute_ticks_per_bar(tsc[1], time_division)]
        IN IF ~one_token_stream(cfg)
           THEN [s1 EXCEPT !.current_tick = 0, !.tick_at_last_ts_change = 0,
                           !.tick_at_current_bar = 0, !.current_bar = -1,
                           !.bar_at_last_ts_change = 0, !.previous_note_end = 0,
                           !.current_instrument =
                               [program |-> s1.current_program, is_drum |-> FALSE,
                                notes |-> <<>>]]
           ELSE s1

\* a Note token that moves current_tick to the end of its note
DecodeNote_AdvancesTick(cfg, st, compound_token) ==
    LET pad_range_idx == IF cfg["use_programs"] THEN 6 ELSE 5
    IN IF \E idx \in 2..(pad_range_idx - 1) : At(compound_token, idx).value = None
       THEN st
       ELSE
        LET pitch == At(compound_token, 2).value[1]
            vel == At(compound_token, 3).value[1]
            duration == token_duration_to_ticks(At(compound_token, 4).value, time_division)
            current_program == IF cfg["use_programs"]
                               THEN At(compound_token, 5).value[1]
                               ELSE st.current_program
            new_note == Note(vel, pitch, st.current_tick, st.current_tick + duration)
            s1 == [st EXCEPT !.current_program = current_program,
                             !.current_tick = st.current_tick + duration,
                             !.previous_note_end = Max(@, st.current_tick + duration)]
        IN IF one_token_stream(cfg)
           THEN [s1 EXCEPT !.instruments =
                    IF current_program \in DOMAIN @
                    THEN [@ EXCEPT ![current_program] = Append(@, new_note)]
                    ELSE [p \in DOMAIN @ \cup {current_program} |->
                             IF p = current_program THEN <<new_note>> ELSE @[p]]]
           ELSE [s1 EXCEPT !.current_instrument.notes = Append(@, new_note)]

\* a Note token
DecodeNote(cfg, st, compound_token) ==
    LET pad_range_idx == IF cfg["use_programs"] THEN 6 ELSE 5
    IN IF \E idx \in 2..(pad_range_idx - 1) : At(compound_token, idx).value = None
       THEN st
       ELSE
        LET pitch == At(compound_token, 2).value[1]
            vel == At(compound_token, 3).value[1]
            duration == token_duration_to_ticks(At(compound_token, 4).value, time_division)
            current_program == IF cfg["use_programs"]
                               THEN At(compound_token, 5).value[1]
                               ELSE st.current_program
            new_note == Note(vel, pitch, st.current_tick, st.current_tick + duration)
            s1 == [st EXCEPT !.current_program = current_program,
                             !.previous_note_end = Max(@, st.current_tick + duration)]
        IN IF one_token_stream(cfg)
           THEN [s1 EXCEPT !.instruments =
                    IF current_program \in DOMAIN @
                    THEN [@ EXCEPT ![current_program] = Append(@, new_note)]
                    ELSE [p \in DOMAIN @ \cup {current_program} |->
                             IF p = current_program THEN <<new_note>> ELSE @[p]]]
           ELSE [s1 EXCEPT !.current_instrument.notes = Append(@, new_note)]

\* a Bar token that leaves the bar counter alone
DecodeBar_NoAdvance(cfg, st, compound_token) ==
    LET current_bar == st.current_bar
        current_tick == IF current_bar > 0
                        THEN st.tick_at_current_bar + st.ticks_per_bar
                        ELSE st.current_tick
        s1 == [st EXCEPT !.current_bar = current_bar, !.current_tick = current_tick,
                         !.tick_at_current_bar = current_tick]
    IN IF cfg["use_time_signatures"] THEN
           LET v == At(compound_token, vocab_types_idx(cfg, "TimeSig")).value
           IN IF v = None THEN [st EXCEPT !.pc = "raised"]
              ELSE
               LET num == parse_token_time_signature(v)[1]
                   den == parse_token_time_signature(v)[2]
               IN IF num # st.current_time_sig[1] \/ den # st.current_time_sig[2]
                  THEN [s1 EXCEPT
                           !.current_time_sig = TimeSignature(num, den, current_tick),
                           !.time_signature_changes =
                               IF st.si = 0
                               THEN Append(@, TimeSignature(num, den, current_tick))
                               ELSE @,
                           !.tick_at_last_ts_change = current_tick,
                           !.bar_at_last_ts_change = current_bar,
                           !.ticks_per_bar =
                               compute_ticks_per_bar(<<num, den>>, time_division)]
                  ELSE s1
       ELSE s1

\* a Bar token
DecodeBar(cfg, st, compound_token) ==
    LET current_bar == st.current_bar + 1
        current_tick == IF current_bar > 0
                        THEN st.tick_at_current_bar + st.ticks_per_bar
                        ELSE st.current_tick
        s1 == [st EXCEPT !.current_bar = current_bar, !.current_tick = current_tick,
                         !.tick_at_current_bar = current_tick]
    IN IF cfg["use_time_signatures"] THEN
           LET v == At(compound_token, vocab_types_idx(cfg, "TimeSig")).value
           IN IF v = None THEN [st EXCEPT !.pc = "raised"]
              ELSE
               LET num == parse_token_time_signature(v)[1]
                   den == parse_token_time_signature(v)[2]
               IN IF num # st.current_time_sig[1] \/ den # st.current_time_sig[2]
                  THEN [s1 EXCEPT
                           !.current_time_sig = TimeSignature(num, den, current_tick),
                           !.time_signature_changes =
                               IF st.si = 0
                               THEN Append(@, TimeSignature(num, den, current_tick))
                               ELSE @,
                           !.tick_at_last_ts_change = current_tick,
                           !.bar_at_last_ts_change = current_bar,
                           !.ticks_per_bar =
                               compute_ticks_per_bar(<<num, den>>, time_division)]
                  ELSE s1
       ELSE s1

\* a Position token whose tempo is read in every sequence
DecodePosition_EverySequence(cfg, st, compound_token) ==
    LET current_tick == st.tick_at_current_bar
                        + At(compound_token, 1).value[1] * ticks_per_sample
        s1 == [st EXCEPT !.current_bar = IF @ = -1 THEN 0 ELSE @,
                         !.current_tick = current_tick]
    IN IF cfg["use_tempos"] THEN
           LET v == At(compound_token, vocab_types_idx(cfg, "Tempo")).value
               last == st.tempo_changes[Len(st.tempo_changes)]
           IN IF v = None THEN [st EXCEPT !.pc = "raised"]
              ELSE IF v[1] # last[1] /\ current_tick # last[2]
                   THEN [s1 EXCEPT !.tempo_changes = Append(@, TempoChange(v[1], current_tick))]
                   ELSE s1
       ELSE s1

\* a Position token whose tempo is compared with the last one only
DecodePosition_AnyTick(cfg, st, compound_token) ==
    LET current_tick == st.tick_at_current_bar
                        + At(compound_token, 1).value[1] * ticks_per_sample
        s1 == [st EXCEPT !.current_bar = IF @ = -1 THEN 0 ELSE @,
                         !.current_tick = current_tick]
    IN IF cfg["use_tempos"] /\ st.si = 0 THEN
           LET v == At(compound_token, vocab_types_idx(cfg, "Tempo")).value
               last == st.tempo_changes[Len(st.tempo_changes)]
           IN IF v = None THEN [st EXCEPT !.pc = "raised"]
              ELSE IF v[1] # last[1]
                   THEN [s1 EXCEPT !.tempo_changes = Append(@, TempoChange(v[1], current_tick))]
                   ELSE s1
       ELSE s1

\* a Position token
DecodePosition(cfg, st, compound_token) ==
    LET current_tick == st.tick_at_current_bar
                        + At(compound_token, 1).value[1] * ticks_per_sample
        s1 == [st EXCEPT !.current_bar = IF @ = -1 THEN 0 ELSE @,
                         !.current_tick = current_tick]
    IN IF cfg["use_tempos"] /\ st.si = 0 THEN
           LET v == At(compound_token, vocab_types_idx(cfg, "Tempo")).value
               last == st.tempo_changes[Len(st.tempo_changes)]
           IN IF v = None THEN [st EXCEPT !.pc = "raised"]
              ELSE IF v[1] # last[1] /\ current_tick # last[2]
                   THEN [s1 EXCEPT !.tempo_changes = Append(@, TempoChange(v[1], current_tick))]
                   ELSE s1
       ELSE s1

\* a Rest token
DecodeRest(cfg, st, compound_token) ==
    LET current_tick ==
            Max(st.previous_note_end, st.current_tick)
            + token_duration_to_ticks(At(compound_token, vocab_types_idx(cfg, "Rest")).value,
                                      time_division)
        real_current_bar ==
            st.bar_at_last_ts_change
            + (current_tick - st.tick_at_last_ts_change) \div st.ticks_per_bar
        ahead == real_current_bar > st.current_bar
    IN [st EXCEPT !.current_tick = current_tick,
                  !.tick_at_current_bar =
                      IF ahead THEN @ + (real_current_bar - st.current_bar) * st.ticks_per_bar
                      ELSE @,
                  !.current_bar = IF ahead THEN real_current_bar ELSE @]

\* a Metric token
DecodeMetric(cfg, st, compound_token) ==
    LET bar_pos == At(compound_token, 1).type
        s1 == IF bar_pos = "Bar" THEN DecodeBar(cfg, st, compound_token)
              ELSE IF bar_pos = "Position" THEN DecodePosition(cfg, st, compound_token)
              ELSE IF cfg["use_rests"]
                      /\ At(compound_token, vocab_types_idx(cfg, "Rest")).value # None
                   THEN DecodeRest(cfg, st, compound_token)
              ELSE st
    IN IF s1.pc = "raised" THEN s1
       ELSE [s1 EXCEPT !.previous_note_end = Max(@, s1.current_tick)]

\* one turn of the loop over the tokens of a sequence
DecodeToken(cfg, st, compound_token) ==
    IF Family(compound_token) = "Note" THEN DecodeNote(cfg, st, compound_token)
    ELSE IF Family(compound_token) = "Metric" THEN DecodeMetric(cfg, st, compound_token)
    ELSE st

\* the end of the call: the mocked tempo change goes, the first one is set at
\* tick 0; max_tick is the max over the tracks, and max([]) raises
Finish(cfg, st) ==
    LET tc == IF Len(st.tempo_changes) > 1 THEN Tail(st.tempo_changes) ELSE st.tempo_changes
        tempo_changes == [tc EXCEPT ![1] = TempoChange(tc[1][1], 0)]
        instruments == IF one_token_stream(cfg) THEN st.instruments ELSE st.midi_instruments
    IN IF DOMAIN instruments = {}
       THEN [st EXCEPT !.pc = "raised", !.tempo_changes = tempo_changes]
       ELSE [st EXCEPT !.pc = "done", !.tempo_changes = tempo_changes,
                       !.midi = [instruments |-> instruments,
                                 tempo_changes |-> tempo_changes,
                                 time_signature_changes |-> st.time_signature_changes]]

\* the end of a sequence: its track joins the MIDI
SeqEnd(cfg, st) ==
    [st EXCEPT !.pc = "seq", !.si = st.si + 1,
               !.midi_instruments =
                   IF one_token_stream(cfg) THEN @ ELSE Append(@, st.current_instrument)]

TokensToMidiBegin ==
    /\ Running("tokens_to_midi") /\ dec.pc = "begin"
    /\ dec' = DecStart
    /\ UNCHANGED <<config, events, todo, enc, tokens, val>>

TokensToMidiSeq ==
    /\ Running("tokens_to_midi") /\ dec.pc = "seq" /\ dec.si < Len(tokens)
    /\ dec' = SeqHead(config, tokens, dec)
    /\ todo' = IF dec'.pc = "raised" THEN Tail(todo) ELSE todo
    /\ UNCHANGED <<config, events, enc, tokens, val>>

TokensToMidiToken ==
    /\ Running("tokens_to_midi") /\ dec.pc = "tok" /\ dec.ti < Len(tokens[dec.si + 1])
    /\ dec' = LET s1 == DecodeToken(config, dec, tokens[dec.si + 1][dec.ti + 1])
              IN IF s1.pc = "raised" THEN s1 ELSE [s1 EXCEPT !.ti = dec.ti + 1]
    /\ todo' = IF dec'.pc = "raised" THEN Tail(todo) ELSE todo
    /\ UNCHANGED <<config, events, enc, tokens, val>>

TokensToMidiSeqEnd ==
    /\ Running("tokens_to_midi") /\ dec.pc = "tok" /\ dec.ti = Len(tokens[dec.si + 1])
    /\ dec' = SeqEnd(config, dec)
    /\ UNCHANGED <<config, events, todo, enc, tokens, val>>

TokensToMidiReturn ==
    /\ Running("tokens_to_midi") /\ dec.pc = "seq" /\ dec.si = Len(tokens)
    /\ dec' = Finish(config, dec)
    /\ todo' = Tail(todo)
    /\ UNCHANGED <<config, events, enc, tokens, val>>

\* create_token_types_graph with the Rest state of chords as that of rests
create_token_types_graph_RestToBar(cfg) ==
    LET d0 == ("Bar" :> <<"Position", "Bar">>) @@ ("Position" :> <<"Pitch">>)
              @@ ("Pitch" :> <<"Pitch", "Bar", "Position">>)
        d1 == IF cfg["use_chords"]
              THEN [k \in DOMAIN d0 \cup {"Rest"} |->
                       IF k = "Rest" THEN <<"Rest", "Position", "Bar">>
                       ELSE IF k = "Pitch" THEN d0[k] \o <<"Rest">> ELSE d0[k]]
              ELSE d0
        d2 == IF cfg["use_rests"]
              THEN [k \in DOMAIN d1 \cup {"Rest"} |->
                       IF k = "Rest" THEN <<"Rest", "Position", "Bar">>
                       ELSE IF k = "Pitch" THEN d1[k] \o <<"Rest">> ELSE d1[k]]
              ELSE d1
        d3 == IF cfg["use_tempos"]
              THEN [k \in DOMAIN d2 |->
                       IF k = "Position"
                       THEN d2[k] \o <<"Position", "Bar">>
                            \o (IF cfg["use_rests"] THEN <<"Rest">> ELSE <<>>)
                       ELSE IF k = "Rest" /\ cfg["use_rests"] THEN d2[k] \o <<"Position">>
                       ELSE d2[k]]
              ELSE d2
        keys == CHOOSE q \in [1..Cardinality(DOMAIN d3) -> DOMAIN d3] :
                    \A a, b \in DOMAIN q : a # b => q[a] # q[b]
    IN [k \in DOMAIN d3 \cup {"Ignore"} |->
           IF k = "Ignore" THEN keys ELSE d3[k] \o <<"Ignore">>]

(***************************************************************************)
(* _create_token_types_graph and tokens_errors: the validator.             *)
(***************************************************************************)
\* the graph of the token type successions, a successor list per key
create_token_types_graph(cfg) ==
    LET d0 == ("Bar" :> <<"Position", "Bar">>) @@ ("Position" :> <<"Pitch">>)
              @@ ("Pitch" :> <<"Pitch", "Bar", "Position">>)
        d1 == IF cfg["use_chords"]
              THEN [k \in DOMAIN d0 \cup {"Rest"} |->
                       IF k = "Rest" THEN <<"Rest", "Position">>
                       ELSE IF k = "Pitch" THEN d0[k] \o <<"Rest">> ELSE d0[k]]
              ELSE d0
        d2 == IF cfg["use_rests"]
              THEN [k \in DOMAIN d1 \cup {"Rest"} |->
                       IF k = "Rest" THEN <<"Rest", "Position", "Bar">>
                       ELSE IF k = "Pitch" THEN d1[k] \o <<"Rest">> ELSE d1[k]]
              ELSE d1
        d3 == IF cfg["use_tempos"]
              THEN [k \in DOMAIN d2 |->
                       IF k = "Position"
                       THEN d2[k] \o <<"Position", "Bar">>
                            \o (IF cfg["use_rests"] THEN <<"Rest">> ELSE <<>>)
                       ELSE IF k = "Rest" /\ cfg["use_rests"] THEN d2[k] \o <<"Position">>
                       ELSE d2[k]]
              ELSE d2
        keys == CHOOSE q \in [1..Cardinality(DOMAIN d3) -> DOMAIN d3] :
                    \A a, b \in DOMAIN q : a # b => q[a] # q[b]
    IN [k \in DOMAIN d3 \cup {"Ignore"} |->
           IF k = "Ignore" THEN keys ELSE d3[k] \o <<"Ignore">>]

\* the graph with Ignore among the successors of Ignore
tokens_types_graph_IgnoreLoop(cfg) ==
    [create_token_types_graph(cfg) EXCEPT !["Ignore"] = Append(@, "Ignore")]

tokens_types_graph(cfg) == create_token_types_graph(cfg)

In(x, list) == \E j \in 1..Len(list) : list[j] = x

\* cp_token_type: the [type, value] of the dominant slot of a token, or a raise
RECURSIVE AdditionalType(_, _)
AdditionalType(tok, i) ==
    IF i >= 5 THEN <<"raise">>
    ELSE LET decoded_token == tok[Len(tok) + 1 - i]       \* tok[-i]
         IN IF decoded_token.type # "Ignore" THEN <<"ok", decoded_token>>
            ELSE AdditionalType(tok, i + 1)

cp_token_type(tok) ==
    LET family == Family(tok)
    IN IF family = "Note" THEN <<"ok", At(tok, 2)>>
       ELSE IF family = "Metric" THEN
           IF At(tok, 1).type \in {"Bar", "Position"} THEN <<"ok", At(tok, 1)>>
           ELSE AdditionalType(tok, 1)
       ELSE IF family = "None" THEN <<"ok", Slot("PAD", None)>>
       ELSE <<"raise">>

ValBlank == [pc |-> "begin"]

NoPitches == [p \in programs |-> <<>>]

\* ValStart with the position of a first Position token taken as current_pos
ValStart_PositionRecorded(ids) ==
    LET first == IF Len(ids) = 0 THEN <<"raise">>
                 ELSE cp_token_type(ids[1])
    IN IF first[1] = "raise" THEN [pc |-> "raised"]
       ELSE [pc |-> "loop", i |-> 1, err |-> 0, previous_type |-> first[2].type,
             current_pos |-> IF first[2].type = "Position" THEN first[2].value[1] ELSE -1,
             program |-> 0, current_pitches |-> NoPitches,
             result |-> <<>>]

\* the locals before the loop, after the first token is classified
ValStart(ids) ==
    LET first == IF Len(ids) = 0 THEN <<"raise">>           \* tokens[0]: IndexError
                 ELSE cp_token_type(ids[1])
    IN IF first[1] = "raise" THEN [pc |-> "raised"]
       ELSE [pc |-> "loop", i |-> 1, err |-> 0, previous_type |-> first[2].type,
             current_pos |-> -1, program |-> 0, current_pitches |-> NoPitches,
             result |-> <<>>]

\* ScoreToken with one set of sounding pitches for all the programs
ScoreToken_SharedPitches(cfg, st, token) ==
    LET classified == cp_token_type(token)
    IN IF classified[1] = "raise" THEN [st EXCEPT !.pc = "raised"]
       ELSE
        LET token_type == classified[2].type
            token_value == classified[2].value
        IN IF st.previous_type \notin DOMAIN tokens_types_graph(cfg)
           THEN [st EXCEPT !.pc = "raised"]                         \* KeyError
           ELSE IF In(token_type, tokens_types_graph(cfg)[st.previous_type]) THEN
               IF token_type = "Bar" THEN
                   [st EXCEPT !.current_pos = -1, !.current_pitches = NoPitches,
                              !.previous_type = token_type]
               ELSE IF token_type = "Pitch" THEN
                   IF cfg["use_programs"] /\ At(token, 5).value = None
                   THEN [st EXCEPT !.pc = "raised"]                 \* int("None")
                   ELSE
                    LET program == IF cfg["use_programs"] THEN At(token, 5).value[1]
                                   ELSE st.program
                    IN IF program \notin DOMAIN st.current_pitches
                       THEN [st EXCEPT !.pc = "raised"]             \* KeyError
                       ELSE IF \E q \in DOMAIN st.current_pitches :
                                   In(token_value[1], st.current_pitches[q])
                       THEN [st EXCEPT !.program = program, !.err = @ + 1,
                                       !.previous_type = token_type]
                       ELSE [st EXCEPT !.program = program,
                                       !.current_pitches[program] = Append(@, token_value[1]),
                                       !.previous_type = token_type]
               ELSE IF token_type = "Position" THEN
                   IF token_value[1] <= st.current_pos /\ st.previous_type # "Rest"
                   THEN [st EXCEPT !.err = @ + 1, !.previous_type = token_type]
                   ELSE [st EXCEPT !.current_pos = token_value[1],
                                   !.current_pitches = NoPitches,
                                   !.previous_type = token_type]
               ELSE [st EXCEPT !.previous_type = token_type]
           ELSE [st EXCEPT !.err = @ + 1, !.previous_type = token_type]

\* one turn of the loop over tokens[1:]
ScoreToken(cfg, st, token) ==
    LET classified == cp_token_type(token)
    IN IF classified[1] = "raise" THEN [st EXCEPT !.pc = "raised"]
       ELSE
        LET token_type == classified[2].type
            token_value == classified[2].value
        IN IF st.previous_type \notin DOMAIN tokens_types_graph(cfg)
           THEN [st EXCEPT !.pc = "raised"]                         \* KeyError
           ELSE IF In(token_type, tokens_types_graph(cfg)[st.previous_type]) THEN
               IF token_type = "Bar" THEN
                   [st EXCEPT !.current_pos = -1, !.current_pitches = NoPitches,
                              !.previous_type = token_type]
               ELSE IF token_type = "Pitch" THEN
                   IF cfg["use_programs"] /\ At(token, 5).value = None
                   THEN [st EXCEPT !.pc = "raised"]                 \* int("None")
                   ELSE
                    LET program == IF cfg["use_programs"] THEN At(token, 5).value[1]
                                   ELSE st.program
                    IN IF program \notin DOMAIN st.current_pitches
                       THEN [st EXCEPT !.pc = "raised"]             \* KeyError
                       ELSE IF In(token_value[1], st.current_pitches[program])
                       THEN [st EXCEPT !.program = program, !.err = @ + 1,
                                       !.previous_type = token_type]
                       ELSE [st EXCEPT !.program = program,
                                       !.current_pitches[program] = Append(@, token_value[1]),
                                       !.previous_type = token_type]
               ELSE IF token_type = "Position" THEN
                   IF token_value[1] <= st.current_pos /\ st.previous_type # "Rest"
                   THEN [st EXCEPT !.err = @ + 1, !.previous_type = token_type]
                   ELSE [st EXCEPT !.current_pos = token_value[1],
                                   !.current_pitches = NoPitches,
                                   !.previous_type = token_type]
               ELSE [st EXCEPT !.previous_type = token_type]
           ELSE [st EXCEPT !.err = @ + 1, !.previous_type = token_type]

TokensErrorsBegin ==
    /\ Running("tokens_errors") /\ val.pc = "begin"
    /\ val' = ValStart(tokens[1])
    /\ todo' = IF val'.pc = "raised" THEN Tail(todo) ELSE todo
    /\ UNCHANGED <<config, events, enc, tokens, dec>>

TokensErrorsLoop ==
    /\ Running("tokens_errors") /\ val.pc = "loop" /\ val.i < Len(tokens[1])
    /\ val' = LET s1 == ScoreToken(config, val, tokens[1][val.i + 1])
              IN IF s1.pc = "raised" THEN s1 ELSE [s1 EXCEPT !.i = val.i + 1]
    /\ todo' = IF val'.pc = "raised" THEN Tail(todo) ELSE todo
    /\ UNCHANGED <<config, events, enc, tokens, dec>>

\* return err / len(tokens): the ratio is kept as <<err, len(tokens)>>
TokensErrorsReturn ==
    /\ Running("tokens_errors") /\ val.pc = "loop" /\ val.i = Len(tokens[1])
    /\ val' = [val EXCEPT !.pc = "done", !.result = <<val.err, Len(tokens[1])>>]
    /\ todo' = Tail(todo)
    /\ UNCHANGED <<config, events, enc, tokens, dec>>

(***************************************************************************)
(* Encode, decode what was encoded, validate what was encoded.             *)
(***************************************************************************)
Init ==
    /\ config \in Configs
    /\ \E s \in Streams(config) : events = StreamEvents(config, s)
    /\ todo = <<"_add_time_events", "tokens_to_midi", "tokens_errors">>
    /\ enc = EncBlank
    /\ tokens = <<>>
    /\ dec = DecBlank
    /\ val = ValBlank

Next ==
    \/ AddTimeEventsBegin \/ AddTimeEventsLoop \/ AddTimeEventsReturn
    \/ TokensToMidiBegin \/ TokensToMidiSeq \/ TokensToMidiToken
    \/ TokensToMidiSeqEnd \/ TokensToMidiReturn
    \/ TokensErrorsBegin \/ TokensErrorsLoop \/ TokensErrorsReturn

Spec == Init /\ [][Next]_vars

(***************************************************************************)
(* Token sequences from anywhere (a model's output): every sequence of at  *)
(* most MaxLen tokens of a pool that holds the well-formed tokens and the  *)
(* malformed ones the vocabulary allows.                                   *)
(***************************************************************************)
RECURSIVE SeqsUpTo(_, _)
SeqsUpTo(S, n) ==
    IF n = 0 THEN {<<>>}
    ELSE {<<>>} \cup UNION {{<<x>> \o q : q \in SeqsUpTo(S, n - 1)} : x \in S}

Tok(cfg, a) == create_cp_token(cfg, a)
WithFamily(tok, family) == Put(tok, 0, Slot("Family", family))

BarTok(cfg, ts) ==
    Tok(cfg, [NoArgs EXCEPT !.bar = TRUE,
                            !.time_signature = IF cfg["use_time_signatures"] THEN ts ELSE None])
PosTok(cfg, pos, tempo) ==
    Tok(cfg, [NoArgs EXCEPT !.pos = <<pos>>,
                            !.tempo = IF cfg["use_tempos"] THEN tempo ELSE None])
NoteTok(cfg, pitch, program) ==
    Tok(cfg, [NoArgs EXCEPT !.pitch = <<pitch>>, !.vel = <<100>>, !.dur = <<1, 0, 2>>,
                            !.program = IF cfg["use_programs"] THEN program ELSE None])
RestTok(cfg, rest) == Tok(cfg, [NoArgs EXCEPT !.rest = rest])
BlankTok(cfg) == Tok(cfg, NoArgs)

\* a Metric token with its Chord, Rest, Tempo and TimeSig slots, where enabled, all set
AdditionalTok(cfg) ==
    LET t1 == IF cfg["use_chords"]
              THEN Put(BlankTok(cfg), vocab_types_idx(cfg, "Chord"), Slot("Chord", <<1>>))
              ELSE BlankTok(cfg)
        t2 == IF cfg["use_rests"]
              THEN Put(t1, vocab_types_idx(cfg, "Rest"), Slot("Rest", <<1, 0, 2>>)) ELSE t1
        t3 == IF cfg["use_tempos"]
              THEN Put(t2, vocab_types_idx(cfg, "Tempo"), Slot("Tempo", <<90>>)) ELSE t2
    IN IF cfg["use_time_signatures"]
       THEN Put(t3, vocab_types_idx(cfg, "TimeSig"), Slot("TimeSig", <<3, 4>>)) ELSE t3

ValTokens(cfg) ==
    {BarTok(cfg, <<4, 4>>), PosTok(cfg, 0, <<120>>), PosTok(cfg, 2, <<120>>),
     NoteTok(cfg, 60, <<0>>),
     IF cfg["use_programs"] THEN NoteTok(cfg, 60, <<1>>) ELSE NoteTok(cfg, 62, None),
     NoteTok(cfg, 60, None),                               \* Program slot Absent
     BlankTok(cfg),                                         \* nothing set
     WithFamily(NoteTok(cfg, 60, <<0>>), "Metric"),         \* base slots under Metric
     AdditionalTok(cfg)}
    \cup (IF cfg["use_rests"] THEN {RestTok(cfg, <<1, 0, 2>>)} ELSE {})

InitVal ==
    /\ config \in Configs
    /\ events = <<>>
    /\ todo = <<"tokens_errors">>
    /\ enc = EncBlank
    /\ \E ids \in SeqsUpTo(ValTokens(config), MaxLen) : tokens = <<ids>>
    /\ dec = DecBlank
    /\ val = ValBlank

NextVal == TokensErrorsBegin \/ TokensErrorsLoop \/ TokensErrorsReturn

SpecVal == InitVal /\ [][NextVal]_vars

(***************************************************************************)
(* Decoding token sequences from anywhere: one sequence of at most MaxSeq  *)
(* tokens and, when the tokenizer handles one sequence per track, possibly *)
(* a second sequence of one token.                                         *)
(***************************************************************************)
DecTokens(cfg) ==
    {NoteTok(cfg, 60, <<0>>),
     IF cfg["use_programs"] THEN NoteTok(cfg, 60, None)
     ELSE Put(NoteTok(cfg, 60, None), 3, Ignore)}          \* a required field Absent
    \cup (IF cfg["use_time_signatures"]
          THEN {BarTok(cfg, <<4, 4>>), BarTok(cfg, <<3, 4>>), BarTok(cfg, None)}
          ELSE {BarTok(cfg, None)})
    \cup (IF cfg["use_tempos"]
          THEN {PosTok(cfg, 0, <<120>>), PosTok(cfg, 0, <<90>>), PosTok(cfg, 2, <<90>>),
                PosTok(cfg, 2, None)}
          ELSE {PosTok(cfg, 0, None), PosTok(cfg, 2, None)})
    \cup (IF cfg["use_rests"] THEN {RestTok(cfg, <<4, 0, 2>>)} ELSE {})

OtherSeqs(cfg) ==
    IF one_token_stream(cfg) THEN {<<>>}
    ELSE {<<>>} \cup {<<q>> : q \in SeqsUpTo(DecTokens(cfg), 1)}

InitDec ==
    /\ config \in Configs
    /\ events = <<>>
    /\ todo = <<"tokens_to_midi">>
    /\ enc = EncBlank
    /\ \E first \in SeqsUpTo(DecTokens(config), MaxSeq), others \in OtherSeqs(config) :
           tokens = <<first>> \o others
    /\ dec = DecBlank
    /\ val = ValBlank

NextDec ==
    \/ TokensToMidiBegin \/ TokensToMidiSeq \/ TokensToMidiToken
    \/ TokensToMidiSeqEnd \/ TokensToMidiReturn

SpecDec == InitDec /\ [][NextDec]_vars

(***************************************************************************)
(* Properties of the whole pipeline: encode, decode, validate.             *)
(***************************************************************************)
\* the notes of an event stream, in stream order
RECURSIVE InputNotes(_, _)
InputNotes(evs, k) ==
    IF k > Len(evs) THEN <<>>
    ELSE IF evs[k].type = "Pitch" /\ k + 2 <= Len(evs)
         THEN <<Note(evs[k + 1].value[1], evs[k].value[1], evs[k].time, evs[k].desc)>>
              \o InputNotes(evs, k + 1)
         ELSE InputNotes(evs, k + 1)

\* the notes of an event stream that follow a Program event of program p
RECURSIVE InputNotesOf(_, _, _, _)
InputNotesOf(evs, k, cur, p) ==
    IF k > Len(evs) THEN <<>>
    ELSE IF evs[k].type = "Program" THEN InputNotesOf(evs, k + 1, evs[k].value, p)
    ELSE IF evs[k].type = "Pitch" /\ k + 2 <= Len(evs) /\ cur = <<p>>
         THEN <<Note(evs[k + 1].value[1], evs[k].value[1], evs[k].time, evs[k].desc)>>
              \o InputNotesOf(evs, k + 1, cur, p)
         ELSE InputNotesOf(evs, k + 1, cur, p)

\* the changes of type type_ of an event stream, as (value..., tick)
RECURSIVE InputChanges(_, _, _)
InputChanges(evs, k, type_) ==
    IF k > Len(evs) THEN <<>>
    ELSE IF evs[k].type = type_
         THEN <<evs[k].value \o <<evs[k].time>> >> \o InputChanges(evs, k + 1, type_)
         ELSE InputChanges(evs, k + 1, type_)

\* a list of changes without the changes that repeat the value before them
RECURSIVE DropRepeats(_)
DropRepeats(l) ==
    IF Len(l) <= 1 THEN l
    ELSE LET r == DropRepeats(SubSeq(l, 1, Len(l) - 1))
             x == l[Len(l)]
         IN IF SubSeq(x, 1, Len(x) - 1) = SubSeq(r[Len(r)], 1, Len(x) - 1)
            THEN r ELSE Append(r, x)

\* a list of changes as a function of the tick: the default holds from tick 0
\* until the first change, and a repetition changes nothing
Canon(l, default) ==
    DropRepeats(IF l = <<>> \/ l[1][Len(l[1])] > 0 THEN <<default \o <<0>> >> \o l ELSE l)

\* the decoded notes are the encoded ones, with pitch, velocity, start and end
NotesEq ==
    IF one_token_stream(config)
    THEN /\ \A p \in programs :
               InputNotesOf(events, 1, None, p) # <<>> => p \in DOMAIN dec.midi.instruments
         /\ \A p \in DOMAIN dec.midi.instruments :
               dec.midi.instruments[p] = InputNotesOf(events, 1, None, p)
    ELSE dec.midi.instruments[1].notes = InputNotes(events, 1)

TempoEq ==
    Canon(dec.midi.tempo_changes, <<TEMPO>>)
        = Canon(InputChanges(events, 1, "Tempo"), <<TEMPO>>)

TimeSigEq ==
    Canon(dec.midi.time_signature_changes, TIME_SIGNATURE)
        = Canon(InputChanges(events, 1, "TimeSig"), TIME_SIGNATURE)

\* the first change of type type_, if any, is at tick 0
Anchored(type_) ==
    LET l == InputChanges(events, 1, type_) IN l = <<>> \/ l[1][Len(l[1])] = 0

\* no two notes of the stream share their tick and their pitch
NoDup ==
    \A i, j \in 1..Len(events) :
        (i < j /\ events[i].type = "Pitch" /\ events[j].type = "Pitch"
               /\ events[i].time = events[j].time)
            => events[i].value # events[j].value

\* C1 (round trip): encoding a time-sorted event stream and decoding the
\* tokens gives back every note with its pitch, velocity, start tick and end
\* tick, and the same tempo and time signature as functions of the tick.
\* Stated for the streams of the supported configurations (rests and time
\* signatures not both enabled) whose first tempo and first time signature
\* event, if any, are at tick 0.
C1_RoundTrip ==
    (dec.pc = "done" /\ ~(config["use_rests"] /\ config["use_time_signatures"])
        /\ Anchored("Tempo") /\ Anchored("TimeSig"))
    => (NotesEq /\ TempoEq /\ TimeSigEq)

\* C2 (idempotent validity): the token sequence the encoder builds from a
\* well-formed event stream (sorted, no two notes with the same tick and
\* pitch, at least one event) has error ratio 0 under tokens_errors.
C2_IdempotentValidity ==
    (val.pc = "done" /\ events # <<>> /\ NoDup
        /\ Anchored("Tempo") /\ Anchored("TimeSig"))
    => val.result[1] = 0

\* the tokens the encoder has emitted are those of compound token tok
Kinds(cfg, tok) ==
    (IF tok[2].type = "Bar" THEN {"Bar"} ELSE {})
    \cup (IF tok[2].type = "Position" THEN {"Position"} ELSE {})
    \cup (IF cfg["use_rests"] /\ At(tok, vocab_types_idx(cfg, "Rest")) # Ignore
          THEN {"Rest"} ELSE {})
    \cup (IF tok[3] # Ignore THEN {"Note"} ELSE {})

\* the slots (TLA+ indices) a token of a kind may fill, Family aside
SlotsOf(cfg, kind) ==
    LET opt(flag, name) == IF cfg[flag] THEN {vocab_types_idx(cfg, name) + 1} ELSE {}
    IN IF kind = "Bar" THEN {2} \cup opt("use_time_signatures", "TimeSig")
       ELSE IF kind = "Position"
            THEN {2} \cup opt("use_chords", "Chord") \cup opt("use_tempos", "Tempo")
       ELSE IF kind = "Rest" THEN opt("use_rests", "Rest")
       ELSE {3, 4, 5} \cup opt("use_programs", "Program")

WellFormed(cfg, tok) ==
    /\ Len(tok) = 5 + Cardinality({f \in Flags : cfg[f]})
    /\ Cardinality(Kinds(cfg, tok)) = 1
    /\ tok[1].type = "Family"
    /\ \A kind \in Kinds(cfg, tok) :
           /\ Family(tok) = (IF kind = "Note" THEN "Note" ELSE "Metric")
           /\ \A i \in 2..Len(tok) : i \notin SlotsOf(cfg, kind) => tok[i] = Ignore
    /\ \A i \in 2..Len(tok) :
           tok[i].type \in {"Ignore", token_types(cfg)[i]}
           \/ (i = 2 /\ tok[i].type = "Bar")

C5_PositionBounds ==
    (enc.pc = "loop" /\ ~(config["use_rests"] /\ config["use_time_signatures"])
        /\ Anchored("Tempo") /\ Anchored("TimeSig"))
    => \A i \in enc.first_new..Len(enc.all_events) :
           enc.all_events[i][2].type = "Position"
           => /\ 0 <= enc.all_events[i][2].value[1]
              /\ enc.all_events[i][2].value[1] < enc.ticks_per_bar \div ticks_per_sample

\* the encoder is about to process an event at a new tick that ends a silent
\* gap of two bars, with rests and without time signatures
C8_Gap ==
    /\ Running("_add_time_events") /\ enc.pc = "loop" /\ enc.e <= Len(events)
    /\ config["use_rests"] /\ ~config["use_time_signatures"]
    /\ events[enc.e].type # "Program"
    /\ events[enc.e].time # enc.previous_tick
    /\ events[enc.e].time - enc.previous_note_end = 2 * enc.ticks_per_bar
    /\ 2 * enc.ticks_per_bar >= min_rest

\* the ticks of the Rest tokens among tokens first..last of toks
RECURSIVE RestTicks(_, _, _, _)
RestTicks(cfg, toks, first, last) ==
    IF first > last THEN 0
    ELSE (IF "Rest" \in Kinds(cfg, toks[first])
          THEN token_duration_to_ticks(At(toks[first], vocab_types_idx(cfg, "Rest")).value,
                                       time_division)
          ELSE 0)
         + RestTicks(cfg, toks, first + 1, last)

\* C8 (rest spanning bars): with rests enabled, processing the event that
\* ends a silent gap of two bars, wherever the gap lies in the track, emits
\* Rest tokens whose durations sum to the gap and no Bar token, and leaves
\* current_bar and tick_at_current_bar at the index and the start tick of
\* the bar that holds the tick of the event.
C8_RestSpanningBars ==
    [][C8_Gap =>
        LET tick == events[enc.e].time
            first == Len(enc.all_events) + 1
            last == Len(enc'.all_events)
        IN /\ RestTicks(config, enc'.all_events, first, last) = 2 * enc.ticks_per_bar
           /\ \A i \in first..last : "Bar" \notin Kinds(config, enc'.all_events[i])
           /\ enc'.current_bar = tick \div enc.ticks_per_bar
           /\ enc'.tick_at_current_bar = (tick \div enc.ticks_per_bar) * enc.ticks_per_bar]_vars

(***************************************************************************)
(* Properties of the decoder on token sequences from anywhere.             *)
(***************************************************************************)
\* the decoding of one sequence alone, from the head of the loop to the end
RECURSIVE DecodeTokens(_, _, _, _)
DecodeTokens(cfg, st, seq, i) ==
    IF st.pc = "raised" \/ i > Len(seq) THEN st
    ELSE DecodeTokens(cfg, DecodeToken(cfg, st, seq[i]), seq, i + 1)

DecodeAlone(cfg, seq) ==
    LET head == SeqHead(cfg, <<seq>>, DecStart)
        last == DecodeTokens(cfg, head, seq, 1)
    IN IF last.pc = "raised" THEN last ELSE Finish(cfg, SeqEnd(cfg, last))

\* C3 (first-sequence-only global timing): the tempo changes and the time
\* signature changes the decoder returns for several sequences are those it
\* returns for the first sequence alone, whatever the other sequences hold.
C3_FirstSequenceOnly ==
    (dec.pc = "done" /\ Len(tokens) > 1)
    => /\ DecodeAlone(config, tokens[1]).pc # "raised"
       /\ dec.midi.tempo_changes = DecodeAlone(config, tokens[1]).midi.tempo_changes
       /\ dec.midi.time_signature_changes
              = DecodeAlone(config, tokens[1]).midi.time_signature_changes

\* the decoder has returned for two sequences, the second one holding a tempo
\* or a time signature the first one does not
C3_Witness ==
    /\ dec.pc = "done" /\ Len(tokens) = 2 /\ Len(tokens[1]) > 0
    /\ \E t \in 1..Len(tokens[2]) :
           \/ /\ config["use_tempos"] /\ At(tokens[2][t], 1).type = "Position"
              /\ At(tokens[2][t], vocab_types_idx(config, "Tempo")).value # None
              /\ \A c \in 1..Len(dec.midi.tempo_changes) :
                     dec.midi.tempo_changes[c][1]
                         # At(tokens[2][t], vocab_types_idx(config, "Tempo")).value[1]
           \/ /\ config["use_time_signatures"] /\ At(tokens[2][t], 1).type = "Bar"
              /\ At(tokens[2][t], vocab_types_idx(config, "TimeSig")).value # None
              /\ \A c \in 1..Len(dec.midi.time_signature_changes) :
                     SubSeq(dec.midi.time_signature_changes[c], 1, 2)
                         # At(tokens[2][t], vocab_types_idx(config, "TimeSig")).value

IsBarTok(tok) == Family(tok) = "Metric" /\ At(tok, 1).type = "Bar"
IsPositionTok(tok) == Family(tok) = "Metric" /\ At(tok, 1).type = "Position"
IsRestTok(cfg, tok) ==
    /\ Family(tok) = "Metric" /\ At(tok, 1).type \notin {"Bar", "Position"}
    /\ cfg["use_rests"] /\ At(tok, vocab_types_idx(cfg, "Rest")).value # None

\* the decoder consumes the next token of the current sequence
Consumed ==
    /\ dec.pc = "tok" /\ dec'.pc = "tok"
    /\ dec'.si = dec.si /\ dec'.ti = dec.ti + 1

\* C6 as stated (monotonic bars): while the decoder consumes a token sequence
\* of one track, current_bar never decreases, and each token consumed
\* increases it by one when it is a Bar token and by nothing otherwise, so
\* that after any prefix it has increased by the number of Bar tokens of
\* the prefix.
C6_MonotonicBars ==
    [][Consumed =>
        /\ dec'.current_bar >= dec.current_bar
        /\ dec'.current_bar - dec.current_bar
               = (IF IsBarTok(tokens[dec.si + 1][dec.ti + 1]) THEN 1 ELSE 0)]_vars

\* C6 amended: current_bar never decreases; a Bar token increases it by
\* exactly one; a Position token met before any bar takes it from -1 to 0;
\* besides these only a Rest token increases it; every other token leaves
\* it alone.
C6_Bars ==
    [][Consumed =>
        LET tok == tokens[dec.si + 1][dec.ti + 1]
        IN /\ dec'.current_bar >= dec.current_bar
           /\ IsBarTok(tok) => dec'.current_bar = dec.current_bar + 1
           /\ IsPositionTok(tok)
                  => dec'.current_bar = (IF dec.current_bar = -1 THEN 0 ELSE dec.current_bar)
           /\ (~IsBarTok(tok) /\ ~IsPositionTok(tok) /\ ~IsRestTok(config, tok))
                  => dec'.current_bar = dec.current_bar]_vars

\* the decoder has consumed, in one sequence, a Bar token after a Position or
\* a Rest token that had already advanced current_bar
C6_Witness ==
    /\ dec.pc = "tok" /\ dec.ti = 2
    /\ ~IsBarTok(tokens[dec.si + 1][1]) /\ IsBarTok(tokens[dec.si + 1][2])
    /\ dec.current_bar >= 1

(***************************************************************************)
(* Properties of the validator on token sequences from anywhere.           *)
(***************************************************************************)
\* C7 (mutation sensitivity): for a token sequence with two adjacent Position
\* tokens, anywhere in the sequence, the later one with a smaller grid value
\* than the earlier one, tokens_errors returns an error ratio above 0.
C7_MutationSensitivity ==
    (/\ val.pc = "done"
     /\ \E k \in 1..(Len(tokens[1]) - 1) :
            /\ IsPositionTok(tokens[1][k]) /\ IsPositionTok(tokens[1][k + 1])
            /\ At(tokens[1][k], 1).value[1] > At(tokens[1][k + 1], 1).value[1])
    => val.result[1] > 0

\* a Metric token with its Bar-or-Position slot and all its optional slots Absent
Unclassifiable(tok) ==
    /\ Family(tok) = "Metric"
    /\ At(tok, 1) = Ignore
    /\ \A i \in 6..Len(tok) : tok[i] = Ignore

\* C9 (unclassifiable token is fatal): tokens_errors raises when it meets a
\* Metric token whose Bar-or-Position slot and optional slots are all Absent:
\* it never goes past such a token, nor returns a ratio that counts it.
C9_UnclassifiableFatal ==
    val.pc \in {"loop", "done"}
    => \A j \in 1..val.i : ~Unclassifiable(tokens[1][j])

\* C10 (soft errors never raise): on a non-empty sequence of classifiable
\* tokens (cp_token_type returns a type, and rightly so), tokens_errors folds every grammar, position and pitch violation
\* into the ratio it returns and never raises.
C10_SoftErrorsNeverRaise ==
    (/\ tokens[1] # <<>>
     /\ \A t \in 1..Len(tokens[1]) :
            cp_token_type(tokens[1][t])[1] = "ok" /\ ~Unclassifiable(tokens[1][t]))
    => val.pc # "raised"

(***************************************************************************)
(* Encoding the note events of a track whose end was cut: the stream may   *)
(* stop after the last Pitch event or after its Velocity event.            *)
(***************************************************************************)
NoteItems(cfg) == {it \in Items(cfg) : it.kind = "Note"}

RECURSIVE NoteStreamsFrom(_, _, _)
NoteStreamsFrom(cfg, n, last) ==
    IF n = 0 THEN {<<>>}
    ELSE {<<>>} \cup
         UNION {{<<it>> \o s : s \in NoteStreamsFrom(cfg, n - 1, <<it>>)} :
                    it \in {x \in NoteItems(cfg) : last = <<>> \/ Follows(last[1], x)}}

\* the events of a stream without its last cut events
CutStream(cfg, s, cut) ==
    LET evs == StreamEvents(cfg, s) IN SubSeq(evs, 1, Len(evs) - cut)

InitTrunc ==
    /\ config \in Configs
    /\ \E s \in NoteStreamsFrom(config, MaxItems, <<>>), cut \in 0..2 :
           /\ cut > 0 => s # <<>>
           /\ events = CutStream(config, s, cut)
    /\ todo = <<"_add_time_events">>
    /\ enc = EncBlank
    /\ tokens = <<>>
    /\ dec = DecBlank
    /\ val = ValBlank

NextTrunc == AddTimeEventsBegin \/ AddTimeEventsLoop \/ AddTimeEventsReturn

SpecTrunc == InitTrunc /\ [][NextTrunc]_vars

\* the Pitch event at k has its Velocity and its Duration after it
CompleteAt(evs, k) ==
    /\ evs[k].type = "Pitch"
    /\ k + 2 <= Len(evs)
    /\ evs[k + 1].type = "Velocity" /\ evs[k + 2].type = "Duration"

\* <<pitch, velocity, duration>> of the complete triplets among events 1..n
RECURSIVE Triplets(_, _, _)
Triplets(evs, k, n) ==
    IF k > n THEN <<>>
    ELSE (IF CompleteAt(evs, k)
          THEN << <<evs[k].value, evs[k + 1].value, evs[k + 2].value>> >> ELSE <<>>)
         \o Triplets(evs, k + 1, n)

\* <<pitch, velocity, duration>> of the Note tokens of toks
RECURSIVE NoteTokens(_, _)
NoteTokens(toks, i) ==
    IF i > Len(toks) THEN <<>>
    ELSE (IF Family(toks[i]) = "Note"
          THEN << <<At(toks[i], 2).value, At(toks[i], 3).value, At(toks[i], 4).value>> >>
          ELSE <<>>)
         \o NoteTokens(toks, i + 1)

\* C11 (truncated trailing note): the Note tokens the encoder has emitted are
\* those of the Pitch events processed that have both their Velocity and
\* their Duration after them, in order: a last Pitch event without both
\* companions gets no Note token, every complete triplet before it, the last
\* one of the stream included, gets one.  (The encoder has no raise.)
C11_TruncatedTrailingNote ==
    enc.pc \in {"loop", "done"}
    => NoteTokens(enc.all_events, 1) = Triplets(events, 1, enc.e - 1)

\* the encoder has returned for a stream that ends with a Pitch event without
\* both companions, after a complete triplet
C11_Witness ==
    /\ enc.pc = "done"
    /\ \E k \in 1..Len(events) :
           /\ events[k].type = "Pitch" /\ ~CompleteAt(events, k)
           /\ \A j \in (k + 1)..Len(events) : events[j].type # "Pitch"
           /\ \E j \in 1..(k - 1) : CompleteAt(events, j)
    /\ Len(NoteTokens(enc.all_events, 1)) >= 1

(***************************************************************************)
(* Scoring: the pitches that sound per program.                            *)
(***************************************************************************)
\* the token scored by the turn of the loop that leads from val to val'
ScoredToken == tokens[1][val.i + 1]

\* a turn of the loop has scored a Note token that its predecessor's type allows
NoteScored ==
    /\ val.pc = "loop" /\ val'.pc = "loop" /\ val'.i = val.i + 1
    /\ Family(ScoredToken) = "Note" /\ At(ScoredToken, 2).type = "Pitch"
    /\ val.previous_type \in DOMAIN tokens_types_graph(config)
    /\ In("Pitch", tokens_types_graph(config)[val.previous_type])

\* the program a Note token belongs to
ProgramOf(cfg, st, token) ==
    IF cfg["use_programs"] THEN At(token, 5).value[1] ELSE st.program

\* C12 (duplicate-pitch detection): scoring a Note token that the grammar
\* allows counts exactly one error and leaves the sets of sounding pitches
\* unchanged when its pitch is already in the set of its own program;
\* otherwise it counts no error and appends the pitch to the set of that
\* program and to no other set.
C12_DuplicatePitch ==
    [][NoteScored =>
        LET p == ProgramOf(config, val, ScoredToken)
            pitch == At(ScoredToken, 2).value[1]
        IN IF In(pitch, val.current_pitches[p])
           THEN /\ val'.err = val.err + 1
                /\ val'.current_pitches = val.current_pitches
           ELSE /\ val'.err = val.err
                /\ val'.current_pitches =
                       [val.current_pitches EXCEPT ![p] = Append(@, pitch)]]_vars

\* the same pitch has been scored twice on one program, after a first token
\* of the other program: once without an error and added to the set of its
\* program only, once with one error and the sets unchanged
C12_Witness ==
    /\ config["use_programs"]
    /\ val.pc = "loop" /\ val.i = 3 /\ Len(tokens[1]) = 3
    /\ \A t \in 1..3 : Family(tokens[1][t]) = "Note" /\ At(tokens[1][t], 2).value = <<60>>
    /\ At(tokens[1][1], 5).value = <<0>>
    /\ At(tokens[1][2], 5).value = <<1>> /\ At(tokens[1][3], 5).value = <<1>>
    /\ val.err = 1
    /\ val.current_pitches[1] = <<60>> /\ val.current_pitches[0] = <<>>

(***************************************************************************)
(* The Bar tokens of the segmenter.                                        *)
(***************************************************************************)
\* the locals of _add_time_events after the pre-pass and k turns of the loop
RECURSIVE EncAfter(_, _, _)
EncAfter(cfg, evs, k) ==
    IF k = 0 THEN PrePass(cfg, evs, EncBlank)
    ELSE LET st == EncAfter(cfg, evs, k - 1)
         IN [LoopBody(cfg, evs, st, k) EXCEPT
                !.e = k + 1, !.first_new = Len(st.all_events) + 1]

\* a turn of the loop has processed an event at a new tick
NewTickProcessed ==
    /\ enc.pc = "loop" /\ enc'.pc = "loop" /\ enc'.e = enc.e + 1
    /\ events[enc.e].type # "Program"
    /\ events[enc.e].time # enc.previous_tick

\* the tokens appended by the turn of the loop that leads from enc to enc'
NewTokens == SubSeq(enc'.all_events, Len(enc.all_events) + 1, Len(enc'.all_events))

TimeSigOf(cfg, tok) == At(tok, vocab_types_idx(cfg, "TimeSig")).value

\* the Bar tokens of a turn: their number, their place, their time signatures;
\* current_bar is the one the rest of the gap, if any, has advanced
BarsEmitted ==
    NewTickProcessed =>
        LET event == events[enc.e]
            current_bar == RestPart(config, enc, event).current_bar
            n == enc.bar_at_last_ts_change
                 + (event.time - enc.tick_at_last_ts_change) \div enc.ticks_per_bar
                 - current_bar
            bars == SelectSeq(NewTokens, IsBarTok)
        IN /\ Len(bars) = IF n >= 1 THEN n ELSE 0
           /\ \A i, j \in 1..Len(NewTokens) :
                  i < j /\ IsBarTok(NewTokens[j])
                  => IsBarTok(NewTokens[i]) \/ IsRestTok(config, NewTokens[i])
           /\ config["use_time_signatures"] =>
                  \A i \in 1..Len(bars) :
                      TimeSigOf(config, bars[i]) =
                          IF i = Len(bars) /\ event.type = "TimeSig" THEN event.value
                          ELSE enc.current_time_sig

\* every TimeSig event is carried by a Bar token that comes after the tokens
\* of the events before it and before the first Position token after them
ChangesCarried ==
    \A k \in 1..Len(events) :
        events[k].type = "TimeSig" =>
            LET start == Len(EncAfter(config, events, k - 1).all_events) + 1
                toks == enc.all_events
            IN \E j \in start..Len(toks) :
                   /\ IsBarTok(toks[j]) /\ TimeSigOf(config, toks[j]) = events[k].value
                   /\ \A i \in start..(j - 1) : ~IsPositionTok(toks[i])

\* C13 (Bar emission): an event processed at a new tick emits exactly
\* n = bar_at_last_ts_change + (event.tick - tick_at_last_ts_change) div
\* ticks_per_bar - current_bar Bar tokens when n >= 1 and none otherwise, in
\* a row; each carries the time signature tracked before the event, the last
\* one the new signature when the event is a TimeSig event; and so every
\* time signature change is carried by a Bar token emitted no later than the
\* next Position token.
C13_BarEmission ==
    /\ [][BarsEmitted]_vars
    /\ [](enc.pc = "done" => ChangesCarried)

(***************************************************************************)
(* The bar grid of the segmenter.                                          *)
(***************************************************************************)
\* the grid variables agree with one another and with the tick of an event
GridConsistent(st, tick) ==
    st.current_bar >= 0 =>
        /\ st.ticks_per_bar = compute_ticks_per_bar(st.current_time_sig, time_division)
        /\ st.tick_at_current_bar =
               st.tick_at_last_ts_change
               + (st.current_bar - st.bar_at_last_ts_change) * st.ticks_per_bar
        /\ st.tick_at_current_bar <= tick

\* C14 (grid-state consistency): after any prefix of the events is processed,
\* whenever current_bar >= 0, tick_at_current_bar = tick_at_last_ts_change
\* + (current_bar - bar_at_last_ts_change) * ticks_per_bar, ticks_per_bar is
\* that of the current time signature, and tick_at_current_bar is at most the
\* tick of the last processed event.
C14_GridConsistency ==
    (enc.pc = "loop" /\ enc.e > 1) => GridConsistent(enc, events[enc.e - 1].time)

(***************************************************************************)
(* The Rest tokens of the segmenter.                                       *)
(***************************************************************************)
\* a turn of the loop has processed an event that ends a gap of a rest or more
GapProcessed ==
    /\ NewTickProcessed
    /\ config["use_rests"]
    /\ events[enc.e].time - enc.previous_note_end >= min_rest

\* the values of the Rest tokens of toks
RestValues(cfg, toks) ==
    LET rs == SelectSeq(toks, LAMBDA t : IsRestTok(cfg, t))
    IN [i \in 1..Len(rs) |-> At(rs[i], vocab_types_idx(cfg, "Rest")).value]

\* C15 (rest gap), as stated: when rests are enabled and event.tick -
\* previous_note_end >= min_rest, the Rest tokens emitted are the
\* decomposition of event.tick - previous_tick, previous_tick being the tick
\* of the event processed before as the segmenter keeps it, one Rest token
\* per value.
C15_RestGapFromPreviousTick ==
    [][GapProcessed =>
        RestValues(config, NewTokens)
            = ticks_to_rest_tokens(events[enc.e].time - enc.previous_tick)]_vars

\* C15 (rest gap), amended: when rests are enabled and an event at a new
\* tick is processed with event.tick - previous_note_end >= min_rest, the
\* Rest tokens emitted are the decomposition of event.tick -
\* previous_note_end, one Rest token per value, in order and before every
\* other token of the event, and previous_tick is moved to previous_note_end
\* plus the durations consumed; an event at a new tick with a smaller gap
\* emits no Rest token.
C15_RestGap ==
    [][NewTickProcessed =>
        LET event == events[enc.e]
            gap == event.time - enc.previous_note_end
            values == IF config["use_rests"] /\ gap >= min_rest
                      THEN ticks_to_rest_tokens(gap) ELSE <<>>
        IN /\ RestValues(config, NewTokens) = values
           /\ \A i \in 1..Len(values) : IsRestTok(config, NewTokens[i])
           /\ GapProcessed =>
                  RestPart(config, enc, event).previous_tick
                      = enc.previous_note_end + SumTicks(values)]_vars

\* Rest tokens have been emitted for a gap that is shorter than the distance
\* to the event before, a note that lasts
C15_Witness ==
    /\ enc.pc = "loop" /\ enc.e > 2 /\ config["use_rests"]
    /\ events[enc.e - 1].type = "Pitch" /\ events[enc.e - 2].type = "Duration"
    /\ LET ticks == RestTicks(config, enc.all_events, enc.first_new, Len(enc.all_events))
       IN ticks >= min_rest /\ ticks < events[enc.e - 1].time - events[enc.e - 2].time

(***************************************************************************)
(* The pre-pass of the segmenter.                                          *)
(***************************************************************************)
\* the first event of a type, when no note event comes before it
SeedEvents(type_) ==
    {k \in 1..Len(events) :
        /\ events[k].type = type_
        /\ \A j \in 1..(k - 1) : events[j].type \notin NoteStart \cup {type_}}

\* the value of the seed event of a type when it lies at tick 0, or a default
SeedAtTickZero(type_, default) ==
    IF \E k \in SeedEvents(type_) : events[k].time = 0
    THEN events[CHOOSE k \in SeedEvents(type_) : TRUE].value
    ELSE default

\* C16 (pre-pass seeding): after the pre-pass the time signature (the tempo)
\* is that of the first TimeSig (Tempo) event only if this event lies at tick
\* 0 before the first note event; if it lies at a later tick, the time
\* signature is 4/4 and the tempo the default one.
C16_PrePassSeeding ==
    (enc.pc = "loop" /\ enc.e = 1) =>
        /\ config["use_time_signatures"] =>
               /\ enc.current_time_sig = SeedAtTickZero("TimeSig", TIME_SIGNATURE)
               /\ enc.ticks_per_bar
                      = compute_ticks_per_bar(enc.current_time_sig, time_division)
        /\ config["use_tempos"] =>
               enc.current_tempo = SeedAtTickZero("Tempo", <<TEMPO>>)

(***************************************************************************)
(* The note-end watermark of the segmenter.                                *)
(***************************************************************************)
\* a turn of the loop has processed an event
EventProcessed == enc.pc = "loop" /\ enc'.pc = "loop" /\ enc'.e = enc.e + 1

\* C17 (note-end watermark), as stated: after a Program, Tempo, TimeSig or
\* Chord event at tick t is processed, previous_note_end >= t; and
\* previous_note_end never decreases.
C17_WatermarkAfterProgram ==
    [][EventProcessed =>
        /\ events[enc.e].type \in {"Program", "Tempo", "TimeSig", "Chord"}
               => enc'.previous_note_end >= events[enc.e].time
        /\ enc'.previous_note_end >= enc.previous_note_end]_vars

\* C17 (note-end watermark), amended: after a Tempo, TimeSig or Chord event
\* at tick t is processed, previous_note_end is the greater of its value
\* before and t; a Program event leaves it unchanged, so that it may be less
\* than t; and previous_note_end never decreases.
C17_Watermark ==
    [][EventProcessed =>
        /\ events[enc.e].type \in {"Tempo", "TimeSig", "Chord"}
               => enc'.previous_note_end = Max(enc.previous_note_end, events[enc.e].time)
        /\ events[enc.e].type = "Program"
               => enc'.previous_note_end = enc.previous_note_end
        /\ enc'.previous_note_end >= enc.previous_note_end]_vars

\* a Program event has been processed at a tick after the watermark
C17_Witness ==
    /\ enc.pc = "loop" /\ enc.e > 1
    /\ events[enc.e - 1].type = "Program"
    /\ enc.previous_note_end < events[enc.e - 1].time

(***************************************************************************)
(* The Position token after a time signature change.                       *)
(***************************************************************************)
\* events[k] is the first event after a TimeSig event that is neither a
\* Program nor a TimeSig event
FirstAfterTimeSig(k) ==
    /\ events[k].type \notin {"Program", "TimeSig"}
    /\ \E j \in 1..(k - 1) :
           /\ events[j].type = "TimeSig"
           /\ \A i \in (j + 1)..(k - 1) : events[i].type \in {"Program", "TimeSig"}

\* C18 (Position forced after a signature change): a TimeSig event emits no
\* Position token; the first event after it that is neither a Program nor a
\* TimeSig event emits a Position token, before its Note token if it has
\* one, whatever its tick.
C18_PositionAfterTimeSig ==
    [][EventProcessed =>
        /\ events[enc.e].type = "TimeSig"
               => \A i \in 1..Len(NewTokens) : ~IsPositionTok(NewTokens[i])
        /\ FirstAfterTimeSig(enc.e)
               => \E i \in 1..Len(NewTokens) :
                      /\ IsPositionTok(NewTokens[i])
                      /\ \A j \in 1..(i - 1) : Family(NewTokens[j]) # "Note"]_vars

\* a Pitch event at the tick of the TimeSig event before it has been
\* processed, and has emitted a Position token and a Note token
C18_Witness ==
    /\ enc.pc = "loop" /\ enc.e > 2
    /\ events[enc.e - 2].type = "TimeSig" /\ events[enc.e - 1].type = "Pitch"
    /\ events[enc.e - 2].time = events[enc.e - 1].time
    /\ enc.first_new < Len(enc.all_events)
    /\ IsPositionTok(enc.all_events[enc.first_new])
    /\ Family(enc.all_events[Len(enc.all_events)]) = "Note"

(***************************************************************************)
(* The tempo changes of the decoder.                                       *)
(***************************************************************************)
\* the decoder has consumed a Position token of the first sequence, tempos on
PositionConsumed ==
    /\ Consumed /\ dec.si = 0 /\ config["use_tempos"]
    /\ IsPositionTok(tokens[1][dec.ti + 1])

TempoOf(cfg, tok) == At(tok, vocab_types_idx(cfg, "Tempo")).value[1]

LastTempoChange(st) == st.tempo_changes[Len(st.tempo_changes)]

NoteConsumed == Consumed /\ Family(tokens[dec.si + 1][dec.ti + 1]) = "Note"

\* pitch, velocity, duration or, with programs, program is Absent
FieldAbsent(cfg, tok) ==
    \/ At(tok, 2).value = None \/ At(tok, 3).value = None \/ At(tok, 4).value = None
    \/ cfg["use_programs"] /\ At(tok, 5).value = None

\* the notes of a program in the results, none if the program has no track yet
NotesOf(st, p) == IF p \in DOMAIN st.instruments THEN st.instruments[p] ELSE <<>>

\* the time variables of the decoder, previous_note_end left out
TimeBookkeeping(st) ==
    <<st.current_tick, st.current_bar, st.tick_at_current_bar,
      st.tick_at_last_ts_change, st.bar_at_last_ts_change, st.current_time_sig,
      st.ticks_per_bar, st.time_signature_changes, st.tempo_changes>>

\* C20 (decoder Note token): a Note token with pitch, velocity, duration or,
\* with programs, program Absent adds no note and changes nothing of the
\* decoder's state; any other Note token appends exactly one note, from
\* current_tick to current_tick + its decoded duration, to the track of its
\* program, leaves current_tick, current_bar, tick_at_current_bar and the
\* time signature bookkeeping unchanged and raises previous_note_end to the
\* end of the note if that is later.
C20_DecodedNote ==
    [][NoteConsumed =>
        LET tok == tokens[dec.si + 1][dec.ti + 1]
        IN IF FieldAbsent(config, tok) THEN dec' = [dec EXCEPT !.ti = @ + 1]
           ELSE
            LET end == dec.current_tick
                       + token_duration_to_ticks(At(tok, 4).value, time_division)
                new_note == Note(At(tok, 3).value[1], At(tok, 2).value[1],
                                 dec.current_tick, end)
                p == IF config["use_programs"] THEN At(tok, 5).value[1]
                     ELSE dec.current_program
            IN /\ IF one_token_stream(config)
                  THEN /\ dec'.instruments[p] = Append(NotesOf(dec, p), new_note)
                       /\ \A q \in DOMAIN dec'.instruments \ {p} :
                              dec'.instruments[q] = NotesOf(dec, q)
                       /\ dec'.current_instrument = dec.current_instrument
                  ELSE /\ dec'.current_instrument.notes
                              = Append(dec.current_instrument.notes, new_note)
                       /\ dec'.instruments = dec.instruments
               /\ dec'.midi_instruments = dec.midi_instruments
               /\ TimeBookkeeping(dec') = TimeBookkeeping(dec)
               /\ dec'.previous_note_end = Max(dec.previous_note_end, end)]_vars

\* a Note token has been consumed after a Position token off the bar line:
\* its note ends after current_tick, where previous_note_end now is
C20_Witness ==
    /\ dec.pc = "tok" /\ dec.ti = 2
    /\ IsPositionTok(tokens[dec.si + 1][1])
    /\ Family(tokens[dec.si + 1][2]) = "Note"
    /\ ~FieldAbsent(config, tokens[dec.si + 1][2])
    /\ dec.current_tick > 0
    /\ dec.previous_note_end > dec.current_tick

(***************************************************************************)
(* The grammar of token types.                                             *)
(***************************************************************************)
\* the successors of a state of the graph, Ignore left out
Successors(cfg, k) ==
    LET list == tokens_types_graph(cfg)[k]
    IN {list[i] : i \in 1..Len(list)} \ {"Ignore"}

\* C21 (grammar construction): for every combination of the chords, rests and
\* tempos flags the successor sets, Ignore left out, are: Bar -> {Position,
\* Bar}; Pitch -> {Pitch, Bar, Position}, and Rest iff chords or rests;
\* Position -> {Pitch}, and Position and Bar iff tempos, and Rest iff tempos
\* and rests; Rest is a state iff chords or rests, with Rest -> {Rest,
\* Position}, and Bar iff rests.
C21_GrammarConstruction ==
    LET chords == config["use_chords"]
        rests_ == config["use_rests"]
        tempos_ == config["use_tempos"]
        graph == tokens_types_graph(config)
    IN /\ Successors(config, "Bar") = {"Position", "Bar"}
       /\ Successors(config, "Pitch")
              = {"Pitch", "Bar", "Position"}
                \cup (IF chords \/ rests_ THEN {"Rest"} ELSE {})
       /\ Successors(config, "Position")
              = {"Pitch"} \cup (IF tempos_ THEN {"Position", "Bar"} ELSE {})
                \cup (IF tempos_ /\ rests_ THEN {"Rest"} ELSE {})
       /\ ("Rest" \in DOMAIN graph) = (chords \/ rests_)
       /\ "Rest" \in DOMAIN graph =>
              Successors(config, "Rest")
                  = {"Rest", "Position"} \cup (IF rests_ THEN {"Bar"} ELSE {})
       /\ DOMAIN graph \ {"Rest", "Ignore"} = {"Bar", "Position", "Pitch"}

\* with chords and tempos, without rests, the validator has scored a Bar
\* token after a Position token without an error
C21_Witness ==
    /\ config["use_chords"] /\ config["use_tempos"] /\ ~config["use_rests"]
    /\ val.pc = "loop" /\ val.i = 3 /\ val.err = 0
    /\ IsPositionTok(tokens[1][2]) /\ IsBarTok(tokens[1][3])
    /\ "Rest" \in DOMAIN tokens_types_graph(config)

(***************************************************************************)
(* Scoring sequences of classifiable tokens, tokens of type Ignore among   *)
(* them: a Note token whose Pitch slot is Ignore_None is classified as     *)
(* Ignore.                                                                 *)
(***************************************************************************)
IgnoreTok(cfg) == Put(NoteTok(cfg, 60, <<0>>), 2, Ignore)

IgnTokens(cfg) ==
    {BarTok(cfg, <<4, 4>>), PosTok(cfg, 0, <<120>>), NoteTok(cfg, 60, <<0>>), IgnoreTok(cfg)}
    \cup (IF cfg["use_programs"] THEN {NoteTok(cfg, 60, <<1>>)} ELSE {})
    \cup (IF cfg["use_rests"] THEN {RestTok(cfg, <<1, 0, 2>>)} ELSE {})

InitIgn ==
    /\ config \in Configs
    /\ events = <<>>
    /\ todo = <<"tokens_errors">>
    /\ enc = EncBlank
    /\ \E ids \in SeqsUpTo(IgnTokens(config), MaxLen) : tokens = <<ids>>
    /\ dec = DecBlank
    /\ val = ValBlank

NextIgn == TokensErrorsBegin \/ TokensErrorsLoop \/ TokensErrorsReturn

SpecIgn == InitIgn /\ [][NextIgn]_vars

\* C22 (Ignore is universal), as stated: Ignore is an allowed successor of
\* every state of the graph, and every state of the graph is an allowed
\* successor of Ignore.
C22_IgnoreUniversal ==
    \A k \in DOMAIN tokens_types_graph(config) :
        /\ In("Ignore", tokens_types_graph(config)[k])
        /\ In(k, tokens_types_graph(config)["Ignore"])

\* C22 (Ignore is universal), amended: Ignore is an allowed successor of
\* every state of the graph but Ignore itself, every state but Ignore is an
\* allowed successor of Ignore, and Ignore is no successor of Ignore.
C22_IgnoreUniversalButItself ==
    /\ "Ignore" \in DOMAIN tokens_types_graph(config)
    /\ \A k \in DOMAIN tokens_types_graph(config) \ {"Ignore"} :
           /\ In("Ignore", tokens_types_graph(config)[k])
           /\ In(k, tokens_types_graph(config)["Ignore"])
    /\ ~In("Ignore", tokens_types_graph(config)["Ignore"])

\* the validator has scored two tokens of type Ignore in a row: the first
\* after a Bar token without an error, the second with one
C22_Witness ==
    /\ val.pc = "loop" /\ val.i = 3 /\ val.previous_type = "Ignore"
    /\ IsBarTok(tokens[1][1])
    /\ tokens[1][2] = IgnoreTok(config) /\ tokens[1][3] = IgnoreTok(config)
    /\ val.err = 1

(***************************************************************************)
(* The classification of Metric tokens without Bar or Position.            *)
(***************************************************************************)
\* the optional slots a Metric token is classified by, in slot order
MetricFields == << <<"use_chords", "Chord">>, <<"use_rests", "Rest">>,
                   <<"use_tempos", "Tempo">>, <<"use_time_signatures", "TimeSig">> >>

\* the non-Absent slots among them of a token, in slot order
RECURSIVE SetFields(_, _, _)
SetFields(cfg, tok, i) ==
    IF i > Len(MetricFields) THEN <<>>
    ELSE (IF cfg[MetricFields[i][1]]
             /\ At(tok, vocab_types_idx(cfg, MetricFields[i][2])) # Ignore
          THEN <<At(tok, vocab_types_idx(cfg, MetricFields[i][2]))>> ELSE <<>>)
         \o SetFields(cfg, tok, i + 1)

\* the token the validator classifies next
NextClassified ==
    IF val.pc = "begin" THEN tokens[1][1] ELSE tokens[1][val.i + 1]

\* C23 (classification of a Metric token with no Bar/Position): the type is
\* that of the first non-Absent slot among the enabled optional slots taken
\* in slot order (Chord, Rest, Tempo, TimeSig); no base slot (Pitch,
\* Velocity, Duration) is ever read, so none gives the type, whatever the
\* number of optional fields.
C23_MetricClassification ==
    (/\ Running("tokens_errors")
     /\ \/ val.pc = "begin" /\ Len(tokens[1]) >= 1
        \/ val.pc = "loop" /\ val.i < Len(tokens[1])
     /\ Family(NextClassified) = "Metric"
     /\ At(NextClassified, 1).type \notin {"Bar", "Position"})
    => LET set == SetFields(config, NextClassified, 1)
           classified == cp_token_type(NextClassified)
       IN /\ set # <<>> => classified = <<"ok", set[1]>>
          /\ classified[1] = "ok"
                 => classified[2].type \notin {"Pitch", "Velocity", "Duration"}

(***************************************************************************)
(* Decoding two tracks: a first sequence of at most one token and a second *)
(* sequence of at most MaxTrack tokens, one sequence per track.            *)
(***************************************************************************)
MaxTrack == 3

FirstTrackTokens(cfg) ==
    {NoteTok(cfg, 60, None)}
    \cup (IF cfg["use_time_signatures"]
          THEN {BarTok(cfg, <<4, 4>>), BarTok(cfg, <<3, 4>>)} ELSE {BarTok(cfg, None)})

TrackTokens(cfg) ==
    {NoteTok(cfg, 60, None), PosTok(cfg, 0, <<120>>),
     BarTok(cfg, IF cfg["use_time_signatures"] THEN <<4, 4>> ELSE None)}
    \cup (IF cfg["use_rests"] THEN {RestTok(cfg, <<4, 0, 2>>)} ELSE {})

FirstTracks(cfg) == SeqsUpTo(FirstTrackTokens(cfg), 1)

InitTracks ==
    /\ config \in {cfg \in Configs : ~one_token_stream(cfg)}
    /\ events = <<>>
    /\ todo = <<"tokens_to_midi">>
    /\ enc = EncBlank
    /\ \E first \in FirstTracks(config), second \in SeqsUpTo(TrackTokens(config), MaxTrack) :
           tokens = <<first, second>>
    /\ dec = DecBlank
    /\ val = ValBlank

NextTracks ==
    \/ TokensToMidiBegin \/ TokensToMidiSeq \/ TokensToMidiToken
    \/ TokensToMidiSeqEnd \/ TokensToMidiReturn

SpecTracks == InitTracks /\ [][NextTracks]_vars

\* tokens_to_midi on sequences seqs, from the head of the loop over them
RECURSIVE DecodeFrom(_, _, _)
DecodeFrom(cfg, seqs, st) ==
    IF st.pc = "raised" THEN st
    ELSE IF st.si = Len(seqs) THEN Finish(cfg, st)
    ELSE LET head == SeqHead(cfg, seqs, st)
             last == DecodeTokens(cfg, head, seqs[st.si + 1], 1)
         IN IF head.pc = "raised" THEN head
            ELSE IF last.pc = "raised" THEN last
            ELSE DecodeFrom(cfg, seqs, SeqEnd(cfg, last))

DecodeAll(cfg, seqs) == DecodeFrom(cfg, seqs, DecStart)

\* C24 (track independence), as stated: the notes decoded for the second
\* sequence are those decoded for it whatever the first sequence holds.
C24_TrackIndependence ==
    (dec.pc = "done" /\ Len(tokens) = 2) =>
        \A other \in FirstTracks(config) :
            LET r == DecodeAll(config, <<other, tokens[2]>>)
            IN r.pc = "done"
               => r.midi.instruments[2].notes = dec.midi.instruments[2].notes

\* C24 (track independence), amended: the notes decoded for the second
\* sequence are those decoded for it whatever the first sequence holds, as
\* long as the first time signature of the first sequence is the same.
C24_TrackIndependenceGivenTimeSig ==
    (dec.pc = "done" /\ Len(tokens) = 2) =>
        \A other \in FirstTracks(config) :
            LET r == DecodeAll(config, <<other, tokens[2]>>)
            IN (/\ r.pc = "done"
                /\ r.midi.time_signature_changes[1] = dec.midi.time_signature_changes[1])
               => r.midi.instruments[2].notes = dec.midi.instruments[2].notes

\* two tracks have been decoded, the first one with a Bar token, the second
\* one with a Bar token and a note after it
C24_Witness ==
    /\ dec.pc = "done" /\ Len(tokens) = 2
    /\ Len(tokens[1]) = 1 /\ IsBarTok(tokens[1][1])
    /\ \E t \in 1..Len(tokens[2]) : IsBarTok(tokens[2][t])
    /\ Len(dec.midi.instruments[2].notes) >= 1
    /\ DecodeAll(config, <<<<>>, tokens[2]>>).pc = "done"

\* the value of the last Tempo event among the first k events, the tempo
\* seeded by the pre-pass when there is none
RECURSIVE RecentTempo(_, _, _)
RecentTempo(cfg, evs, k) ==
    IF k = 0 THEN PrePass(cfg, evs, EncBlank).current_tempo
    ELSE IF evs[k].type = "Tempo" THEN evs[k].value
    ELSE RecentTempo(cfg, evs, k - 1)

\* C25 (encoder output meets the decoder's field requirements): with time
\* signatures every Bar token the encoder emits has a TimeSig value, with
\* tempos every Position token it emits has the value of the most recent
\* Tempo event (the seeded tempo before the first one) as its Tempo value,
\* and decoding the encoded sequence never raises on a token: the only raise
\* left is the one at the end of the call, after the last sequence.
C25_FieldRequirements ==
    /\ [][EventProcessed =>
             \A t \in 1..Len(NewTokens) :
                 LET tok == NewTokens[t]
                 IN /\ (config["use_time_signatures"] /\ IsBarTok(tok))
                           => TimeSigOf(config, tok) # None
                    /\ (config["use_tempos"] /\ IsPositionTok(tok))
                           => /\ At(tok, vocab_types_idx(config, "Tempo")).value # None
                              /\ At(tok, vocab_types_idx(config, "Tempo")).value
                                     = RecentTempo(config, events, enc.e)]_vars
    /\ [](dec.pc = "raised" => dec.si = Len(tokens))

\* an encoded sequence with a Bar token and with a Position token whose
\* tempo is not the seeded one has been decoded
C25_Witness ==
    /\ config["use_time_signatures"] /\ config["use_tempos"]
    /\ dec.pc = "done" /\ Len(tokens) = 1 /\ tokens[1] = enc.all_events
    /\ \E t, u \in 1..Len(tokens[1]) :
           /\ IsBarTok(tokens[1][t]) /\ TimeSigOf(config, tokens[1][t]) # None
           /\ IsPositionTok(tokens[1][u])
           /\ TempoOf(config, tokens[1][u]) # PrePass(config, events, EncBlank).current_tempo[1]

\* C26 (error-count bound), as stated: at most one error is counted per token
\* after the first, the returned count is at most n - 1 and below n, and
\* nothing of the first token is checked or recorded: the locals before the
\* loop are the same whatever the first token is.
C26_ErrorBound ==
    /\ val.pc = "loop" => val.err <= val.i - 1
    /\ val.pc = "done" => /\ val.result[2] = Len(tokens[1])
                          /\ val.result[1] <= val.result[2] - 1
                          /\ val.result[1] < val.result[2]
    /\ (val.pc = "loop" /\ val.i = 1) =>
           \A other \in ValTokens(config) :
               LET s == ValStart(<<other>>)
               IN s.pc = "loop" => s = val

\* C26 (error-count bound), amended: at most one error is counted per token
\* after the first, the returned count is at most n - 1 and below n, and of
\* the first token only the type is recorded, as the previous type: the other
\* locals before the loop are the same whatever the first token is.
C26_ErrorBoundTypeKept ==
    /\ val.pc = "loop" => val.err <= val.i - 1
    /\ val.pc = "done" => /\ val.result[2] = Len(tokens[1])
                          /\ val.result[1] <= val.result[2] - 1
                          /\ val.result[1] < val.result[2]
    /\ (val.pc = "loop" /\ val.i = 1) =>
           /\ val.previous_type = cp_token_type(tokens[1][1])[2].type
           /\ val.err = 0 /\ val.current_pos = -1 /\ val.current_pitches = NoPitches
           /\ \A other \in ValTokens(config) :
                  LET s == ValStart(<<other>>)
                  IN s.pc = "loop" => [s EXCEPT !.previous_type = val.previous_type] = val

\* three tokens have been scored, the first one a Position token, and each
\* token after the first is an error
C26_Witness ==
    /\ val.pc = "done" /\ val.result = <<2, 3>>
    /\ IsPositionTok(tokens[1][1])

\* C27 (decoded global lists anchored at tick 0): the tempo changes returned
\* are not empty and start at tick 0, the time signature changes returned
\* are not empty, start at tick 0 and every later one is at a strictly later
\* tick than the one before it.
C27_ListsAnchored ==
    dec.pc = "done" =>
        LET tc == dec.midi.tempo_changes
            tsc == dec.midi.time_signature_changes
        IN /\ Len(tc) >= 1 /\ tc[1][2] = 0
           /\ Len(tsc) >= 1 /\ tsc[1][3] = 0
           /\ \A j \in 2..Len(tsc) : tsc[j][3] > tsc[j - 1][3]

====
